---------------------------- MODULE Spec2Model ----------------------------
(***************************************************************************)
(* A model of the RTW case-management client (Tiagocruz3/CMnew):           *)
(*   - the heuristic response parser of the chatbot (RTWChatbot.tsx),      *)
(*   - the RTW planner form and its PDF gate (RTWPlanner.tsx),             *)
(*   - the AI settings store, the AI service and the three AI panels,      *)
(*   - case deletion (service, row-level policy, delete dialog),           *)
(*   - SupabaseService.getCurrentUser.                                     *)
(* Text is modelled as sequences: a response is a sequence of lines, a     *)
(* line is a sequence of tokens (the words between blanks, a blank run at  *)
(* either end being the token " "), a form field is a text of such lines.  *)
(* Hours are held in thousandths.                                          *)
(***************************************************************************)
EXTENDS Integers, Sequences, FiniteSets, TLC

VARIABLES
  \* ---- response parser (RTWChatbot.tsx)
  aiResponse,        \* the text handed to parseRTWRecommendations
  recommendations,   \* the recommendations object of parseRTWRecommendations
  parserPc,          \* "ready" before the call, "parsed" after it
  \* ---- AI settings store (aiSettingsStore.ts) and the environment
  apiKey,            \* import.meta.env.VITE_OPENAI_API_KEY, read at process start
  connectionStatus,  \* 'connected' | 'disconnected' | 'checking' | 'error'
  isConnected,
  errorMessage,
  checksInFlight,    \* checkConnection calls waiting for the models endpoint
  \* ---- RTW planner (RTWPlanner.tsx)
  caseData,          \* the case the planner was opened for
  formData,
  edits,             \* number of handleInputChange calls so far
  pdfResult,         \* outcome of the last generatePDF call since the form changed
  plannerLoading,    \* the planner's isLoading
  aiError,
  assistInFlight,    \* the AI Assist call waiting for chatWithRTWExpert
  \* ---- one call of the AI service (aiService.ts)
  serviceCall,       \* the method and what the completion request will do
  serviceResult,     \* pending, or how the returned promise settled
  \* ---- chatbot (RTWChatbot.tsx)
  caseOpen,          \* the location is the page of a case
  chatPc,            \* where processUserMessage waits: idle, rtw_wait, final_wait
  chatLoading,       \* the chatbot's isLoading
  chatCase,          \* currentCase of the message being processed
  chatResponse,      \* response, as built before the last await
  chatActions,       \* actions of the message being processed
  messages,
  submits,           \* number of messages submitted so far
  chatRequests,      \* completion requests issued for the last submitted message
  isChatbotOpen,     \* AppLayout's state: the chat panel is shown
  actionClicks,      \* number of action buttons clicked so far
  \* ---- insights panel (AIInsights)
  insights,
  insightsLoading,
  insightsError,
  insightsInFlight,  \* generateInsights calls waiting for analyzeCase
  clicks,            \* Generate Insights and AI Assist clicks so far
  \* ---- what went over the wire and what the user was shown
  requestsIssued,    \* completion requests sent to the API so far
  shown,             \* <<kind of failure, text shown for it>>
  \* ---- deleting a case (supabaseService.ts, the policy, the delete dialog)
  session,           \* auth.uid() of the requests, "anon" without a session
  deleteTarget,      \* the case the dialog is for
  dbCases,           \* ids of the rows of the cases table
  dbDocuments,       \* rows of the documents table
  storageFiles,      \* paths of the files in the documents bucket
  uploads,           \* uploadDocument calls so far
  modalOpen,
  isDeleting,
  deletesInFlight,   \* onConfirm calls waiting for deleteCase
  confirmations,     \* clicks on Delete that the dialog took
  confirmCalls,      \* calls of onConfirm
  deleteResult,      \* how the last deleteCase settled: none, ok, threw
  \* ---- getCurrentUser (supabaseService.ts)
  userCall,          \* what the environment of the call does
  userPc,            \* getUser, profile, done
  user,
  userResult,
  \* ---- model selection (aiSettingsStore.ts, Settings page, aiService.ts)
  selectedModel,
  storage,           \* the 'ai-settings' entry of localStorage, Null when absent
  getSelectedModel,  \* what aiService's selector returns, Null when none is set
  settingsOpen,      \* the Settings page is mounted
  modelsResponse,    \* the answer the last checkConnection got, Null before it
  requestFlow,       \* a user action waiting for its completion: idle, awaiting
  sentModels,        \* model of each completion request of this session
  sessions,          \* page loads so far
  \* ---- auth store (authStore.ts)
  authUser,          \* user: the empty set for null, else the set of the one User
  isAuthenticated,
  isLoading,
  authError,         \* error
  initCalls,         \* the initialize calls that passed the isLoading test
  \* ---- login, logout and the auth state listener (authStore.ts)
  loginPc,           \* the login call: none, pending, succeeded, failed
  logouts,           \* number of logout calls that have ended
  authEvents,        \* number of auth state events delivered
  signedOutEvents,   \* how many of them signed the user out
  profileFetches,    \* getCurrentUser calls of the listener that are awaited
  \* ---- reading and creating cases (supabaseService.ts)
  casesCall,         \* the method called and what its environment does
  casesPc,           \* start, query, profiles, done
  casesRow,          \* the row the cases table answered with, if any
  casesResult        \* pending, or how the returned promise settled

parserVars == <<aiResponse, recommendations, parserPc>>
storeVars == <<apiKey, connectionStatus, isConnected, errorMessage, checksInFlight>>
plannerVars ==
  <<caseData, formData, edits, pdfResult, plannerLoading, aiError, assistInFlight>>
serviceVars == <<serviceCall, serviceResult>>
chatVars ==
  <<caseOpen, chatPc, chatLoading, chatCase, chatResponse, chatActions, messages,
    submits, chatRequests, isChatbotOpen, actionClicks>>
insightVars == <<insights, insightsLoading, insightsError, insightsInFlight, clicks>>
logVars == <<requestsIssued, shown>>
aiVars == <<chatVars, insightVars, logVars>>
deleteVars ==
  <<session, deleteTarget, dbCases, dbDocuments, storageFiles, uploads, modalOpen,
    isDeleting, deletesInFlight, confirmations, confirmCalls, deleteResult>>
userVars == <<userCall, userPc, user, userResult>>
settingsVars ==
  <<selectedModel, storage, getSelectedModel, settingsOpen, modelsResponse, requestFlow,
    sentModels, sessions>>
authVars == <<authUser, isAuthenticated, isLoading, authError, initCalls>>
casesVars == <<casesCall, casesPc, casesRow, casesResult>>
signInVars == <<loginPc, logouts, authEvents, signedOutEvents, profileFetches>>
sessionVars == <<settingsVars, authVars, casesVars, signInVars>>
appVars ==
  <<parserVars, storeVars, plannerVars, serviceVars, aiVars, deleteVars, userVars>>

vars ==
  <<parserVars, storeVars, plannerVars, serviceVars, aiVars, deleteVars, userVars,
    sessionVars>>

(***************************************************************************)
(* Bounds of the model.                                                    *)
(***************************************************************************)
MaxLines == 3
MaxChecks == 1
MaxEdits == 1
MaxSubmits == 2
MaxClicks == 1
MaxDocs == 2
MaxConfirms == 2
MaxSessions == 2
MaxRequests == 2
MaxInits == 3
MaxActionClicks == 1
MaxLogouts == 1
MaxAuthEvents == 2

\* Timeouts of the case service, in milliseconds.
HealthTimeoutMs == 5000
CasesTimeoutMs == 15000

(***************************************************************************)
(* Text helpers.                                                           *)
(***************************************************************************)
\* String.prototype.toLowerCase on one token.
toLowerCase(tok) ==
  CASE tok = "Duties"       -> "duties"
    [] tok = "Workplace"    -> "workplace"
    [] tok = "Medical"      -> "medical"
    [] tok = "Hours"        -> "hours"
    [] tok = "HOURS"        -> "hours"
    [] OTHER                -> tok

RECURSIVE trimLeft(_)
trimLeft(line) ==
  IF line # <<>> /\ Head(line) = " " THEN trimLeft(Tail(line)) ELSE line

RECURSIVE trimRight(_)
trimRight(line) ==
  IF line # <<>> /\ line[Len(line)] = " "
  THEN trimRight(SubSeq(line, 1, Len(line) - 1))
  ELSE line

\* String.prototype.trim on a line of tokens.
trim(line) == trimRight(trimLeft(line))

\* trimmedLine.toLowerCase().includes(word), for a word without blanks.
includes(line, word) == \E i \in 1..Len(line) : toLowerCase(line[i]) = word

\* The token that stands for the bullet character U+2022.
Bullet == "(bullet)"

\* trimmedLine.startsWith(ch)
startsWith(line, ch) == line # <<>> /\ Head(line) = ch

RECURSIVE filterLines(_)
\* aiResponse.split('\n').filter(line => line.trim())
filterLines(lines) ==
  IF lines = <<>> THEN <<>>
  ELSE IF trim(Head(lines)) # <<>>
       THEN <<Head(lines)>> \o filterLines(Tail(lines))
       ELSE filterLines(Tail(lines))

(***************************************************************************)
(* parseRTWRecommendations                                                 *)
(***************************************************************************)
\* A week whose entries are all '0' instead of empty.
ZeroWeek ==
  [mon |-> "0", tue |-> "0", wed |-> "0", thu |-> "0", fri |-> "0",
   sat |-> "0", sun |-> "0", total |-> "0"]

EmptyWeek ==
  [mon |-> "", tue |-> "", wed |-> "", thu |-> "", fri |-> "",
   sat |-> "", sun |-> "", total |-> ""]

\* The texts a section without content is given.
Defaults ==
  [dutiesTasks |-> << <<"Duties", "and", "tasks", "to", "be", "determined">> >>,
   workplaceSupports |->
     << <<"Workplace", "supports", "and", "modifications", "to", "be", "determined">> >>,
   dutiesToAvoid |-> << <<"Duties", "to", "be", "avoided", "will", "be", "determined">> >>,
   medicalRestrictions |-> << <<"Medical", "restrictions", "to", "be", "determined">> >>]

\* The accumulators of the line loop before the first line.
ParseStart ==
  [currentSection |-> "", dutiesTasks |-> <<>>, workplaceSupports |-> <<>>,
   dutiesToAvoid |-> <<>>, medicalRestrictions |-> <<>>,
   hoursRecommendation |-> <<>>]

\* The header tests with the hours test moved to the front.
hoursFirst(trimmedLine) ==
  IF includes(trimmedLine, "hours") \/ includes(trimmedLine, "progression") THEN "hours"
  ELSE IF includes(trimmedLine, "duties") /\ includes(trimmedLine, "tasks") THEN "duties"
  ELSE IF includes(trimmedLine, "workplace") \/ includes(trimmedLine, "supports") THEN "supports"
  ELSE IF includes(trimmedLine, "avoid") \/ includes(trimmedLine, "restricted") THEN "avoid"
  ELSE IF includes(trimmedLine, "medical") \/ includes(trimmedLine, "restrictions") THEN "medical"
  ELSE ""

\* The section a header line switches to, "" when the line is no header.
detectSection(trimmedLine) ==
  IF includes(trimmedLine, "duties") /\ includes(trimmedLine, "tasks") THEN "duties"
  ELSE IF includes(trimmedLine, "workplace") \/ includes(trimmedLine, "supports") THEN "supports"
  ELSE IF includes(trimmedLine, "avoid") \/ includes(trimmedLine, "restricted") THEN "avoid"
  ELSE IF includes(trimmedLine, "medical") \/ includes(trimmedLine, "restrictions") THEN "medical"
  ELSE IF includes(trimmedLine, "hours") \/ includes(trimmedLine, "progression") THEN "hours"
  ELSE ""

\* One pass of lines.forEach: a header switches the section, any other line
\* that starts with neither '-' nor the bullet is appended to the section's text.
parseLine(acc, line) ==
  LET trimmedLine == trim(line)
      header == detectSection(trimmedLine)
  IN  IF header # "" THEN [acc EXCEPT !.currentSection = header]
      ELSE IF trimmedLine # <<>> /\ ~startsWith(trimmedLine, "-")
                                  /\ ~startsWith(trimmedLine, Bullet)
      THEN CASE acc.currentSection = "duties" ->
                  [acc EXCEPT !.dutiesTasks = Append(@, trimmedLine)]
             [] acc.currentSection = "supports" ->
                  [acc EXCEPT !.workplaceSupports = Append(@, trimmedLine)]
             [] acc.currentSection = "avoid" ->
                  [acc EXCEPT !.dutiesToAvoid = Append(@, trimmedLine)]
             [] acc.currentSection = "medical" ->
                  [acc EXCEPT !.medicalRestrictions = Append(@, trimmedLine)]
             [] acc.currentSection = "hours" ->
                  [acc EXCEPT !.hoursRecommendation = Append(@, trimmedLine)]
             [] OTHER -> acc
      ELSE acc

RECURSIVE parseLines(_, _)
parseLines(acc, lines) ==
  IF lines = <<>> THEN acc
  ELSE parseLines(parseLine(acc, Head(lines)), Tail(lines))

RECURSIVE joinLines(_)
\* The tokens of a text whose lines are joined by '\n'.
joinLines(text) ==
  IF text = <<>> THEN <<>> ELSE Head(text) \o joinLines(Tail(text))

\* \d+(?:\.\d+)? matching a whole token, and parseFloat of it in thousandths.
isNumber(tok) == tok \in {"20", "8", "7.5", "13"}
parseFloat(tok) ==
  CASE tok = "20" -> 20000 [] tok = "8" -> 8000 [] tok = "7.5" -> 7500
    [] tok = "13" -> 13000 [] OTHER -> 0

\* hours? matching the start of the token after the number (case-insensitive).
isHourWord(tok) == toLowerCase(tok) \in {"hour", "hours", "hourly"}

\* hoursRecommendation.match(/(\d+(?:\.\d+)?)\s*hours?/i): the positions of the
\* number of each match; the leftmost one is the match.
hoursMatches(tokens) ==
  {i \in 1..(Len(tokens) - 1) : isNumber(tokens[i]) /\ isHourWord(tokens[i + 1])}

Min(S) == CHOOSE m \in S : \A n \in S : m <= n

\* The decimal form of a value held in thousandths.
numberToString(t) ==
  LET whole == t \div 1000
      frac  == t % 1000
  IN  IF frac = 0 THEN ToString(whole)
      ELSE IF frac % 100 = 0 THEN ToString(whole) \o "." \o ToString(frac \div 100)
      ELSE IF frac % 10 = 0
           THEN ToString(whole) \o "." \o (IF frac < 100 THEN "0" ELSE "")
                                 \o ToString(frac \div 10)
      ELSE ToString(whole) \o "." \o (IF frac < 10 THEN "00" ELSE IF frac < 100 THEN "0" ELSE "")
                            \o ToString(frac)

\* A Number is held as its decimal value in thousandths (milli) and the digits
\* its double carries beyond that value when printed (tail). The products of
\* the numbers above whose double is not the decimal product:
\* 13 * 0.9 is 11.700000000000001 and 11.700000000000001 * 5 is 58.50000000000001.
roundingTail(x, percent) ==
  IF x = [milli |-> 13000, tail |-> ""] /\ percent = 90 THEN "00000000000001"
  ELSE IF x = [milli |-> 11700, tail |-> "00000000000001"] /\ percent = 500
       THEN "0000000000001"
  ELSE ""

\* x * (percent / 100) in double arithmetic.
multiply(x, percent) ==
  [milli |-> (x.milli * percent) \div 100, tail |-> roundingTail(x, percent)]

\* Number.prototype.toString.
toString(x) == numberToString(x.milli) \o x.tail

\* One week of the schedule: weekdayHours on Monday to Friday, '0' at the
\* weekend, weekdayHours * 5 as total.
weekOf(weekdayHours) ==
  [mon |-> toString(weekdayHours), tue |-> toString(weekdayHours),
   wed |-> toString(weekdayHours), thu |-> toString(weekdayHours),
   fri |-> toString(weekdayHours), sat |-> "0", sun |-> "0",
   total |-> toString(multiply(weekdayHours, 500))]

\* baseHours * 0.5, * 0.75, * 0.9, or baseHours itself.
scaleHours(baseHours, percent) ==
  IF percent = 100 THEN [milli |-> baseHours, tail |-> ""]
  ELSE multiply([milli |-> baseHours, tail |-> ""], percent)

parseRTWRecommendations(response) ==
  LET lines == filterLines(response)
      acc   == parseLines(ParseStart, lines)
      hoursTokens == joinLines(acc.hoursRecommendation)
      matches == hoursMatches(hoursTokens)
      hasHours == acc.hoursRecommendation # <<>> /\ matches # {}
      baseHours == IF hasHours THEN parseFloat(hoursTokens[Min(matches)]) ELSE 0
  IN  [dutiesTasks |->
         IF acc.dutiesTasks # <<>> THEN acc.dutiesTasks ELSE Defaults.dutiesTasks,
       workplaceSupports |->
         IF acc.workplaceSupports # <<>> THEN acc.workplaceSupports
         ELSE Defaults.workplaceSupports,
       dutiesToAvoid |->
         IF acc.dutiesToAvoid # <<>> THEN acc.dutiesToAvoid ELSE Defaults.dutiesToAvoid,
       medicalRestrictions |->
         IF acc.medicalRestrictions # <<>> THEN acc.medicalRestrictions
         ELSE Defaults.medicalRestrictions,
       week1Hours |-> IF hasHours THEN weekOf(scaleHours(baseHours, 50)) ELSE EmptyWeek,
       week2Hours |-> IF hasHours THEN weekOf(scaleHours(baseHours, 75)) ELSE EmptyWeek,
       week3Hours |-> IF hasHours THEN weekOf(scaleHours(baseHours, 90)) ELSE EmptyWeek,
       week4Hours |-> IF hasHours THEN weekOf(scaleHours(baseHours, 100)) ELSE EmptyWeek]

(***************************************************************************)
(* The responses the parser is run on.                                     *)
(***************************************************************************)
LineVocabulary ==
  { <<"Duties", "and", "tasks">>,
    <<"Workplace", "supports">>,
    <<"Duties", "to", "avoid">>,
    <<"Medical", "restrictions">>,
    <<"Hours", "progression">>,
    <<"Workplace", "hours", "to", "avoid">>,
    <<"20", "hours", "per", "day">>,
    <<"20", "hour", "days">>,
    <<"13", "hour", "days">>,
    <<" ", "8", "hour", "shifts", " ">>,
    <<"light", "office", "work">>,
    <<"-", "light", "work">>,
    <<Bullet, "no", "lifting">>,
    <<" ">> }

RECURSIVE SeqsUpTo(_, _)
SeqsUpTo(S, n) ==
  IF n = 0 THEN {<<>>}
  ELSE LET shorter == SeqsUpTo(S, n - 1)
       IN  shorter \cup {Append(s, x) : s \in {t \in shorter : Len(t) = n - 1}, x \in S}

Responses == SeqsUpTo(LineVocabulary, MaxLines)

\* The recommendations object as parseRTWRecommendations first builds it.
EmptyRecommendations ==
  [dutiesTasks |-> <<>>, workplaceSupports |-> <<>>, dutiesToAvoid |-> <<>>,
   medicalRestrictions |-> <<>>,
   week1Hours |-> EmptyWeek, week2Hours |-> EmptyWeek,
   week3Hours |-> EmptyWeek, week4Hours |-> EmptyWeek]

(***************************************************************************)
(* The OpenAI API key and the AI settings store.                           *)
(***************************************************************************)
Null == "null"

\* Values of VITE_OPENAI_API_KEY: undefined, '', blanks, a placeholder, a key.
ApiKeys ==
  { [defined |-> FALSE, text |-> <<>>],
    [defined |-> TRUE,  text |-> <<>>],
    [defined |-> TRUE,  text |-> <<" ">>],
    [defined |-> TRUE,  text |-> <<"your_openai_api_key_here">>],
    [defined |-> TRUE,  text |-> <<"sk-live-key">>] }

Placeholders ==
  { <<"your_openai_api_key_here">>, <<"sk-your-openai-api-key">>,
    <<"sk-placeholder-key-for-development">> }

\* aiService.ts: the key is set, is no placeholder and is not blank.
hasValidKey(key) ==
  /\ key.defined /\ key.text # <<>>
  /\ key.text \notin Placeholders
  /\ trim(key.text) # <<>>

\* A test that only knows a key that is not set.
keyMissing(key) == ~key.defined \/ key.text = <<>>

\* checkConnection's own test of the key.
keyNotConfigured(key) ==
  \/ ~key.defined \/ key.text = <<>>
  \/ key.text \in Placeholders
  \/ trim(key.text) = <<>>

StoreInit(keys) ==
  /\ apiKey \in keys
  /\ connectionStatus = "disconnected"
  /\ isConnected = FALSE
  /\ errorMessage = Null
  /\ checksInFlight = 0

\* checkConnection up to its first await: the store goes to 'checking'; a key
\* that is not configured ends the call at once, else the models request is sent.
CheckConnectionStart ==
  /\ checksInFlight < MaxChecks
  /\ IF keyNotConfigured(apiKey)
     THEN /\ connectionStatus' = "error"
          /\ errorMessage' = "OpenAI API key not configured. Please add VITE_OPENAI_API_KEY to your .env file."
          /\ isConnected' = FALSE
          /\ UNCHANGED checksInFlight
     ELSE /\ connectionStatus' = "checking"
          /\ errorMessage' = Null
          /\ checksInFlight' = checksInFlight + 1
          /\ UNCHANGED isConnected
  /\ UNCHANGED apiKey

\* What the models endpoint answers: 2xx (with a body that parses or not), 401,
\* 429, another status, or fetch rejects.
ModelsAnswers == {"ok", "ok_bad_body", "401", "429", "500", "network"}

\* One text for every failure.
genericMessage(answer) == "Connection check failed"

\* The errorMessage of an answer that is not taken as a success: the text of the
\* status, or the message of the error that fetch or response.json() threw.
statusMessage(answer) ==
  CASE answer = "401" -> "Invalid API key. Please check your OpenAI API key."
    [] answer = "429" -> "Rate limit exceeded. Please try again later."
    [] answer = "500" -> "API error: 500 Internal Server Error"
    [] answer = "ok_bad_body" -> "Unexpected end of JSON input"
    [] OTHER          -> "Failed to fetch"

\* checkConnection after the answer of the models endpoint.
CheckConnectionResolve(answer) ==
  /\ checksInFlight > 0
  /\ checksInFlight' = checksInFlight - 1
  /\ IF answer = "ok"
     THEN /\ connectionStatus' = "connected"
          /\ isConnected' = TRUE
          /\ errorMessage' = Null
     ELSE /\ connectionStatus' = "error"
          /\ isConnected' = FALSE
          /\ errorMessage' = statusMessage(answer)
  /\ UNCHANGED apiKey

(***************************************************************************)
(* AIService.chatWithRTWExpert                                             *)
(***************************************************************************)
\* How a completion request ends: a text, a completion without content, or a
\* rejection (authentication, rate limit, another API error, the network).
FailureKinds == {"authentication", "rate_limit", "api_error", "network"}
CompletionOutcomes == {"ok", "no_content"} \cup FailureKinds

NotConfiguredApology ==
  << <<"I", "apologize", "but", "I", "am", "currently", "unable", "to", "provide",
       "AI-powered", "responses">> >>
NoResponseApology ==
  << <<"I", "apologize", "but", "I", "was", "unable", "to", "generate", "a", "response">> >>
ErrorApology ==
  << <<"I", "apologize", "but", "I", "encountered", "an", "error", "processing",
       "your", "request">> >>

\* await openai.chat.completions.create(...): it rejects on a failure, else
\* completion.choices[0]?.message?.content is the text or is missing.
completion(outcome, text) ==
  [threw |-> outcome \in FailureKinds,
   content |-> IF outcome = "ok" THEN text ELSE <<>>]

Returned(value) == [threw |-> FALSE, value |-> value]
Thrown == [threw |-> TRUE, value |-> <<>>]

\* A catch clause that lets the error go on to the caller.
rethrow(result, fallback) == result

\* try { ... } catch (error) { console.error(...); return fallback }
catchError(result, fallback) ==
  IF result.threw THEN Returned(fallback) ELSE result

\* chatWithRTWExpert(userMessage, caseContext), the request ending with outcome
\* and text being the completion's content.
chatWithRTWExpert(key, outcome, text) ==
  IF ~hasValidKey(key) THEN Returned(NotConfiguredApology)
  ELSE catchError(
         LET c == completion(outcome, text)
         IN  IF c.threw THEN Thrown
             ELSE Returned(IF c.content # <<>> THEN c.content ELSE NoResponseApology),
         ErrorApology)

\* A request leaves the browser only if the client was built with a valid key.
requestsOf(key) == IF hasValidKey(key) THEN 1 ELSE 0

(***************************************************************************)
(* AIService.analyzeCase and analyzeDocument, with the extract helpers.    *)
(***************************************************************************)
\* line.startsWith('•') || '-' || '*' || '1.' || '2.' || '3.'
ListMarks == {Bullet, "-", "*", "1.", "2.", "3."}

\* \n[A-Z] under the i flag: the line starts with a letter.
startsWithLetter(line) == line # <<>> /\ Head(line) \notin (ListMarks \cup {" "})

RECURSIVE dropBlankLines(_)
dropBlankLines(lines) ==
  IF lines = <<>> THEN <<>>
  ELSE IF trim(Head(lines)) = <<>> THEN dropBlankLines(Tail(lines))
  ELSE lines

\* (.*?)(?=\n\n|\n[A-Z]|$): the lines up to an empty line or a line that
\* starts with a letter.
RECURSIVE takeSection(_)
takeSection(lines) ==
  IF lines = <<>> THEN <<>>
  ELSE IF Head(lines) = <<>> \/ startsWithLetter(Head(lines)) THEN <<>>
  ELSE <<Head(lines)>> \o takeSection(Tail(lines))

\* response.match(/<key>[:\s]+(.*?)(?=\n\n|\n[A-Z]|$)/is)
matchSection(response, keys) ==
  LET hits == {i \in 1..Len(response) :
                 \E p \in 1..Len(response[i]) : response[i][p] \in keys}
  IN  IF hits = {} THEN [matched |-> FALSE, lines |-> <<>>]
      ELSE LET i == Min(hits)
               p == Min({q \in 1..Len(response[i]) : response[i][q] \in keys})
               rest == trimLeft(SubSeq(response[i], p + 1, Len(response[i])))
               after == SubSeq(response, i + 1, Len(response))
               flow == IF rest # <<>> THEN <<rest>> \o after ELSE dropBlankLines(after)
           IN  [matched |-> TRUE,
                lines |-> IF flow = <<>> THEN <<>>
                          ELSE <<trimLeft(Head(flow))>> \o takeSection(Tail(flow))]

\* line.replace(/^[•\-*1-9\.]\s*/, '').trim(): one character goes, so that
\* '1.' leaves its dot.
stripMark(line) ==
  IF Head(line) \in {"1.", "2.", "3."} THEN <<".">> \o trim(Tail(line))
  ELSE trim(Tail(line))

RECURSIVE listItems(_)
listItems(lines) ==
  IF lines = <<>> THEN <<>>
  ELSE LET line == trim(Head(lines))
       IN  IF line # <<>> /\ Head(line) \in ListMarks /\ stripMark(line) # <<>>
           THEN <<stripMark(line)>> \o listItems(Tail(lines))
           ELSE listItems(Tail(lines))

extractList(response, keys) ==
  LET m == matchSection(response, keys)
  IN  IF m.matched THEN listItems(m.lines) ELSE <<>>

\* text.trim() of a text of several lines
RECURSIVE trimLines(_)
trimLines(lines) ==
  IF lines = <<>> THEN <<>>
  ELSE LET last == lines[Len(lines)]
           front == SubSeq(lines, 1, Len(lines) - 1)
       IN  IF trim(last) = <<>> THEN trimLines(front)
           ELSE front \o <<trimRight(last)>>

extractText(response, keys, fallback) ==
  LET m == matchSection(response, keys)
  IN  IF m.matched THEN trimLines(m.lines) ELSE fallback

\* The headings the patterns look for are one token each.
extractRecommendations(response) ==
  extractList(response, {"Recommendations:", "recommendation:"})
extractNextSteps(response) == extractList(response, {"Next steps:"})
extractKeyPoints(response) == extractList(response, {"Key points:"})
extractRiskAssessment(response) ==
  extractText(response, {"Risk assessment:"}, << <<"Risk", "assessment", "not", "provided">> >>)
extractSummary(response) ==
  extractText(response, {"Summary:"}, << <<"Summary", "not", "provided">> >>)

CaseNotAvailable ==
  [insights |-> << <<"AI", "analysis", "is", "not", "available">> >>,
   recommendations |-> <<>>,
   riskAssessment |-> << <<"Unable", "to", "assess", "risk", "without", "AI", "service">> >>,
   nextSteps |-> <<>>]
CaseError ==
  [insights |-> << <<"Error", "analyzing", "case">> >>,
   recommendations |-> <<>>,
   riskAssessment |-> << <<"Unable", "to", "assess", "risk">> >>,
   nextSteps |-> <<>>]
DocumentNotAvailable ==
  [insights |-> << <<"AI", "analysis", "is", "not", "available">> >>,
   summary |-> << <<"Unable", "to", "analyze", "document", "without", "AI", "service">> >>,
   keyPoints |-> <<>>,
   recommendations |-> <<>>]
DocumentError ==
  [insights |-> << <<"Error", "analyzing", "document">> >>,
   summary |-> << <<"Unable", "to", "generate", "summary">> >>,
   keyPoints |-> <<>>,
   recommendations |-> <<>>]

\* JSON.stringify(caseData) inside the try block throws for a case object that
\* refers to itself.
analyzeCase(key, stringifies, outcome, text) ==
  IF ~hasValidKey(key) THEN Returned(CaseNotAvailable)
  ELSE catchError(
         IF ~stringifies THEN Thrown
         ELSE LET c == completion(outcome, text)
                  response == IF c.content # <<>> THEN c.content
                              ELSE << <<"No", "response", "generated">> >>
              IN  IF c.threw THEN Thrown
                  ELSE Returned([insights |-> response,
                                 recommendations |-> extractRecommendations(response),
                                 riskAssessment |-> extractRiskAssessment(response),
                                 nextSteps |-> extractNextSteps(response)]),
         CaseError)

analyzeDocument(key, outcome, text) ==
  IF ~hasValidKey(key) THEN Returned(DocumentNotAvailable)
  ELSE catchError(
         LET c == completion(outcome, text)
             response == IF c.content # <<>> THEN c.content
                         ELSE << <<"No", "analysis", "generated">> >>
         IN  IF c.threw THEN Thrown
             ELSE Returned([insights |-> response,
                            summary |-> extractSummary(response),
                            keyPoints |-> extractKeyPoints(response),
                            recommendations |-> extractRecommendations(response)]),
         DocumentError)

\* The completions the model answers an analysis with.
AnalysisTexts ==
  { << <<"Summary:", "worker", "is", "recovering">>,
       <<"Key points:">>, <<"-", "shoulder", "strain">>, <<"*", " ">>,
       <<>>,
       <<"Recommendations:">>, <<"-", "modify", "duties">>, <<"1.", "review", "weekly">>,
       <<"Risk assessment:", "low">>,
       <<"Next steps:">>, <<Bullet, "call", "employer">>, <<"then", "wait">> >>,
    << <<"The", "worker", "is", "recovering">> >>,
    <<>> }

\* The completions the model answers with in the planner and the chat.
CompletionTexts ==
  { << <<"Duties", "and", "tasks">>, <<"light", "office", "work">>,
       <<"Workplace", "supports">>, <<"ergonomic", "chair">>,
       <<"Duties", "to", "avoid">>, <<"heavy", "lifting">>,
       <<"Medical", "restrictions">>, <<"no", "lifting", "over", "5kg">>,
       <<"Hours", "progression">>, <<"20", "hour", "week">> >>,
    << <<"Duties", "and", "tasks">>, <<"light", "office", "work">>,
       <<"Hours", "progression">>, <<"20", "hours", "per", "week">> >>,
    <<>> }

(***************************************************************************)
(* The RTW planner form.                                                   *)
(***************************************************************************)
RequiredFields ==
  {"workerName", "claimNumber", "jobTitle", "employerName", "dutiesTasks",
   "workplaceSupports", "dutiesToAvoid", "medicalRestrictions", "startDate",
   "reviewDate", "preparedByName", "preparedByPhone"}

\* The fields of the form that have an input (preparedByName and
\* preparedByPhone have none); notes stands for the fields that are not required.
InputFields == (RequiredFields \ {"preparedByName", "preparedByPhone"}) \cup {"notes"}

\* What the user types into a field: nothing, blanks, a word.
FieldValues == { <<>>, << <<" ">> >>, << <<"x">> >> }

\* useState<RTWFormData>: every field ''.
InitialForm ==
  [workerName |-> <<>>, claimNumber |-> <<>>, jobTitle |-> <<>>,
   employerName |-> <<>>, dutiesTasks |-> <<>>, workplaceSupports |-> <<>>,
   dutiesToAvoid |-> <<>>, medicalRestrictions |-> <<>>, startDate |-> <<>>,
   reviewDate |-> <<>>, preparedByName |-> <<>>, preparedByPhone |-> <<>>,
   notes |-> <<>>,
   week1Hours |-> EmptyWeek, week2Hours |-> EmptyWeek,
   week3Hours |-> EmptyWeek, week4Hours |-> EmptyWeek]

\* `${firstName} ${lastName}`
workerFullName(firstName, lastName) ==
  << joinLines(firstName) \o <<" ">> \o joinLines(lastName) >>

\* The cases a planner is opened for: every field set; a case as
\* transformCaseFromDB builds it (the case manager's phone is ''); nothing set.
CompleteCase ==
  [firstName |-> << <<"Ann">> >>, lastName |-> << <<"Lee">> >>,
   claimNumber |-> << <<"WC-1">> >>, jobTitle |-> << <<"Clerk">> >>,
   employerName |-> << <<"Acme">> >>, plannedStartDate |-> << <<"2025-07-01">> >>,
   reviewDate |-> << <<"2025-08-01">> >>, managerName |-> << <<"Case", "Manager">> >>,
   managerPhone |-> << <<"0400">> >>]
BlankCase == [f \in DOMAIN CompleteCase |-> <<>>]
Cases == {CompleteCase, [CompleteCase EXCEPT !.managerPhone = <<>>], BlankCase}

\* useEffect([caseData]): pre-fill the form with the case's data.
prefill(form, c) ==
  [form EXCEPT !.workerName = workerFullName(c.firstName, c.lastName),
               !.claimNumber = c.claimNumber,
               !.jobTitle = c.jobTitle,
               !.employerName = c.employerName,
               !.startDate = c.plannedStartDate,
               !.reviewDate = c.reviewDate,
               !.preparedByName = c.managerName,
               !.preparedByPhone = c.managerPhone]

\* field.trim() of a text
trimText(text) == trim(joinLines(text))

\* The same test without the trim.
isFormCompletedUntrimmed(form) ==
  \A f \in RequiredFields : form[f] # <<>>

\* requiredFields.every(field => field && field.trim() !== '')
isFormCompleted(form) ==
  \A f \in RequiredFields : form[f] # <<>> /\ trimText(form[f]) # <<>>

PlannerInit(cases) ==
  /\ caseData \in cases
  /\ formData = prefill(InitialForm, caseData)
  /\ edits = 0
  /\ pdfResult = "none"
  /\ plannerLoading = FALSE
  /\ aiError = Null
  /\ assistInFlight = FALSE

\* handleInputChange(field, value)
handleInputChange(field, value) ==
  /\ edits < MaxEdits
  /\ edits' = edits + 1
  /\ formData' = [formData EXCEPT ![field] = value]
  /\ pdfResult' = "none"
  /\ UNCHANGED <<caseData, plannerLoading, aiError, assistInFlight>>

\* The days of a week that have an input (the total is read-only).
DayInputs == {"mon", "tue", "wed", "thu", "fri", "sat", "sun"}

\* handleWeekHoursChange(week, day, value)
handleWeekHoursChange(week, day, value) ==
  /\ edits < MaxEdits
  /\ edits' = edits + 1
  /\ formData' = [formData EXCEPT ![week][day] = value]
  /\ pdfResult' = "none"
  /\ UNCHANGED <<caseData, plannerLoading, aiError, assistInFlight>>

\* generatePDF: an incomplete form ends the call with an alert; else the print
\* window is opened, unless the browser blocks the pop-up.
generatePDF(popupAllowed) ==
  /\ pdfResult' = IF ~isFormCompleted(formData) THEN "refused"
                  ELSE IF ~popupAllowed THEN "popup_blocked"
                  ELSE "opened"
  /\ UNCHANGED <<caseData, formData, edits, plannerLoading, aiError, assistInFlight>>

AIUnavailableMessage == "AI features are not available. Please configure your OpenAI API key in Settings."

\* generateAIRecommendations up to its await. The button is disabled while
\* isLoading; the function itself refuses when the store is not connected.
AssistClick ==
  /\ ~plannerLoading
  /\ IF ~isConnected
     THEN /\ aiError' = AIUnavailableMessage
          /\ UNCHANGED <<plannerLoading, assistInFlight>>
     ELSE /\ plannerLoading' = TRUE
          /\ aiError' = Null
          /\ assistInFlight' = TRUE
  /\ UNCHANGED <<caseData, formData, edits, pdfResult>>

\* The planner's own copy of the line loop (the same tests in the same order),
\* then setFormData(prev => parsed || prev) for the four text fields.
applyAssist(form, result) ==
  LET acc == parseLines(ParseStart, filterLines(result))
  IN  [form EXCEPT
         !.dutiesTasks = IF acc.dutiesTasks # <<>> THEN acc.dutiesTasks ELSE @,
         !.workplaceSupports =
            IF acc.workplaceSupports # <<>> THEN acc.workplaceSupports ELSE @,
         !.dutiesToAvoid = IF acc.dutiesToAvoid # <<>> THEN acc.dutiesToAvoid ELSE @,
         !.medicalRestrictions =
            IF acc.medicalRestrictions # <<>> THEN acc.medicalRestrictions ELSE @]

\* generateAIRecommendations after chatWithRTWExpert resolved.
AssistResolve(outcome, text) ==
  LET result == chatWithRTWExpert(apiKey, outcome, text)
  IN  /\ assistInFlight
      /\ assistInFlight' = FALSE
      /\ plannerLoading' = FALSE
      /\ IF result.threw
         THEN /\ aiError' = "Failed to generate AI recommendations"
              /\ UNCHANGED <<formData, pdfResult>>
         ELSE /\ formData' = applyAssist(formData, result.value)
              /\ pdfResult' = "none"
              /\ UNCHANGED aiError
      /\ UNCHANGED <<caseData, edits>>

\* populateFromAI(data): the week hours are merged field by field, then the
\* data is spread over the form.
populateFromAI(form, data) ==
  [f \in DOMAIN form |->
     IF f \notin DOMAIN data THEN form[f]
     ELSE IF f \in {"week1Hours", "week2Hours", "week3Hours", "week4Hours"}
          THEN [d \in DOMAIN form[f] |->
                  IF d \in DOMAIN data[f] THEN data[f][d] ELSE form[f][d]]
          ELSE data[f]]

PopulateFromAI(text) ==
  /\ formData' = populateFromAI(formData, parseRTWRecommendations(text))
  /\ pdfResult' = "none"
  /\ UNCHANGED <<caseData, edits, plannerLoading, aiError, assistInFlight>>

(***************************************************************************)
(* One call of an AIService method.                                        *)
(***************************************************************************)
\* The calls: the method, whether the case object can be serialised, how the
\* completion request would end and the text it would carry.
ServiceCalls ==
  [method : {"analyzeCase", "chatWithRTWExpert", "analyzeDocument"}, stringifies : BOOLEAN,
   outcome : CompletionOutcomes, text : AnalysisTexts]
NoCall == [method |-> "none"]
Pending == [state |-> "pending"]
settle(result) == [state |-> "settled", threw |-> result.threw, value |-> result.value]

ServiceInit(calls) ==
  /\ serviceCall \in calls
  /\ serviceResult = Pending

AnalyzeCase ==
  /\ serviceCall.method = "analyzeCase" /\ serviceResult = Pending
  /\ serviceResult' = settle(analyzeCase(apiKey, serviceCall.stringifies,
                                         serviceCall.outcome, serviceCall.text))
  /\ UNCHANGED serviceCall

ChatWithRTWExpert ==
  /\ serviceCall.method = "chatWithRTWExpert" /\ serviceResult = Pending
  /\ serviceResult' = settle(chatWithRTWExpert(apiKey, serviceCall.outcome,
                                               serviceCall.text))
  /\ UNCHANGED serviceCall

AnalyzeDocument ==
  /\ serviceCall.method = "analyzeDocument" /\ serviceResult = Pending
  /\ serviceResult' = settle(analyzeDocument(apiKey, serviceCall.outcome,
                                             serviceCall.text))
  /\ UNCHANGED serviceCall

(***************************************************************************)
(* The chatbot (RTWChatbot.tsx), which stays mounted in the layout.        *)
(***************************************************************************)
\* What the user submits: a plain question, a status query, a request to
\* populate the RTW planner.
ChatInputs == {"question", "status", "populate"}

\* The id of the case whose page and planner the model has; another case.
OpenCaseId == "c1"
CaseIds == {"c1", "c2"}

ChatInit(pages) ==
  /\ caseOpen \in pages
  /\ chatPc = "idle"
  /\ chatLoading = FALSE
  /\ chatCase = FALSE
  /\ chatResponse = <<>>
  /\ chatActions = <<>>
  /\ messages = << [type |-> "assistant", content |-> "welcome", actions |-> <<>>] >>
  /\ submits = 0
  /\ chatRequests = 0
  /\ isChatbotOpen = FALSE
  /\ actionClicks = 0

LogInit ==
  /\ requestsIssued = 0
  /\ shown = {}

\* The user opens a case page or leaves it.
Navigate ==
  /\ caseOpen' = ~caseOpen
  /\ UNCHANGED <<chatPc, chatLoading, chatCase, chatResponse, chatActions, messages,
                 submits, chatRequests, isChatbotOpen, actionClicks, requestsIssued,
                 shown>>

\* onToggle: setIsChatbotOpen(!isChatbotOpen), from the round button and from
\* the panel's close button.
ToggleChatbot ==
  /\ isChatbotOpen' = ~isChatbotOpen
  /\ UNCHANGED <<caseOpen, chatPc, chatLoading, chatCase, chatResponse, chatActions,
                 messages, submits, chatRequests, actionClicks, requestsIssued, shown>>

\* The actions processUserMessage pushes before its first await.
firstActions(input, currentCase) ==
  IF input = "status" \/ (input = "populate" /\ ~currentCase)
  THEN << [action |-> "open_page", target |-> "/cases"] >>
  ELSE <<>>

\* A failed request and the text the user is given for it.
failureShown(key, outcome, message) ==
  IF hasValidKey(key) /\ outcome \in FailureKinds THEN {<<outcome, message>>} ELSE {}

\* A submit that does not look at isLoading.
submitsAlways(loading) == TRUE

\* handleSubmit's test of isLoading (the input is never blank here).
submitAccepted(loading) == ~loading

\* handleSubmit and processUserMessage up to the first await. The input is
\* rendered only in the open panel and while the store is connected.
ProcessUserMessage(input) ==
  /\ isChatbotOpen /\ isConnected /\ submitAccepted(chatLoading)
  /\ submits < MaxSubmits
  /\ submits' = submits + 1
  /\ messages' = Append(messages, [type |-> "user", content |-> input])
  /\ chatLoading' = TRUE
  /\ chatCase' = caseOpen
  /\ chatResponse' = <<>>
  /\ chatActions' = firstActions(input, caseOpen)
  /\ chatPc' = IF input = "populate" /\ caseOpen THEN "rtw_wait" ELSE "final_wait"
  /\ chatRequests' = requestsOf(apiKey)
  /\ requestsIssued' = requestsIssued + requestsOf(apiKey)
  /\ UNCHANGED <<caseOpen, shown, isChatbotOpen, actionClicks>>

\* processUserMessage from the answer to the populate prompt to the next
\* await: the answer is parsed, the populate action is pushed and the user's
\* message is sent to chatWithRTWExpert.
RtwResolve(outcome, text) ==
  LET rtwRecommendations == chatWithRTWExpert(apiKey, outcome, text)
  IN  /\ chatPc = "rtw_wait"
      /\ IF rtwRecommendations.threw
         THEN /\ chatResponse' = << <<"I", "encountered", "an", "error">> >>
              /\ UNCHANGED chatActions
         ELSE /\ chatResponse' = rtwRecommendations.value
              /\ chatActions' =
                   Append(chatActions,
                          [action |-> "populate_rtw_planner", target |-> OpenCaseId,
                           data |-> parseRTWRecommendations(rtwRecommendations.value)])
      /\ chatPc' = "final_wait"
      /\ chatRequests' = chatRequests + requestsOf(apiKey)
      /\ requestsIssued' = requestsIssued + requestsOf(apiKey)
      /\ shown' = shown \cup failureShown(apiKey, outcome, rtwRecommendations.value)
      /\ UNCHANGED <<caseOpen, chatLoading, chatCase, messages, submits, isChatbotOpen,
                     actionClicks>>

\* processUserMessage after its last await: the assistant message is appended
\* and isLoading is reset.
FinalResolve(outcome, text) ==
  LET aiAnswer == chatWithRTWExpert(apiKey, outcome, text)
  IN  /\ chatPc = "final_wait"
      /\ messages' =
           Append(messages,
                  IF aiAnswer.threw
                  THEN [type |-> "assistant", content |-> <<<<>>, ErrorApology>>,
                        actions |-> <<>>]
                  ELSE [type |-> "assistant",
                        content |-> <<chatResponse, aiAnswer.value>>,
                        actions |-> chatActions])
      /\ chatLoading' = FALSE
      /\ chatPc' = "idle"
      /\ shown' = shown \cup failureShown(apiKey, outcome, aiAnswer.value)
      /\ UNCHANGED <<caseOpen, chatCase, chatResponse, chatActions, submits,
                     chatRequests, requestsIssued, isChatbotOpen, actionClicks>>

\* The texts handleActionClick appends after a populate click.
PopulatedText == << <<"Successfully", "populated", "the", "RTW", "Planner", "fields">> >>
FallbackText ==
  << <<"To", "populate", "the", "RTW", "Planner", "go", "to", "the", "RTW", "Planner",
       "tab">> >>

\* A test of the planner that looks only at the reference.
refOnly(rtwPlannerRef, currentCaseId, action) == rtwPlannerRef

\* rtwPlannerRef && currentCaseId === action.target && action.data
plannerReady(rtwPlannerRef, currentCaseId, action) ==
  rtwPlannerRef /\ currentCaseId = action.target /\ "data" \in DOMAIN action

\* handleActionClick(action) for action k of message m. window.rtwPlannerRef and
\* window.currentCaseId are what the page has registered; listed tells whether
\* cases.find meets the target case. Every click ends with onToggle().
HandleActionClick(m, k, rtwPlannerRef, currentCaseId, listed) ==
  /\ isChatbotOpen /\ actionClicks < MaxActionClicks
  /\ m \in DOMAIN messages /\ messages[m].type = "assistant"
  /\ k \in DOMAIN messages[m].actions
  /\ actionClicks' = actionClicks + 1
  /\ isChatbotOpen' = ~isChatbotOpen
  /\ LET action == messages[m].actions[k]
         reply(text) == [type |-> "assistant", content |-> <<<<>>, text>>,
                         actions |-> << [action |-> "open_case",
                                         target |-> action.target] >>]
     IN  CASE action.action = "open_page" ->
                /\ caseOpen' = FALSE
                /\ UNCHANGED <<messages, formData, pdfResult>>
           [] action.action = "open_case" ->
                /\ caseOpen' = TRUE
                /\ UNCHANGED <<messages, formData, pdfResult>>
           [] action.action = "populate_rtw_planner" ->
                /\ UNCHANGED caseOpen
                /\ IF ~listed THEN UNCHANGED <<messages, formData, pdfResult>>
                   ELSE IF plannerReady(rtwPlannerRef, currentCaseId, action)
                   THEN /\ formData' = populateFromAI(formData, action.data)
                        /\ pdfResult' = "none"
                        /\ messages' = Append(messages, reply(PopulatedText))
                   ELSE /\ messages' = Append(messages, reply(FallbackText))
                        /\ UNCHANGED <<formData, pdfResult>>
  /\ UNCHANGED <<chatPc, chatLoading, chatCase, chatResponse, chatActions, submits,
                 chatRequests, requestsIssued, shown>>
  /\ UNCHANGED <<caseData, edits, plannerLoading, aiError, assistInFlight>>

(***************************************************************************)
(* The insights panel (AIInsights).                                        *)
(***************************************************************************)
InsightsInit ==
  /\ insights = Null
  /\ insightsLoading = FALSE
  /\ insightsError = Null
  /\ insightsInFlight = 0
  /\ clicks = 0

\* generateInsights up to its await; the Regenerate button stays enabled
\* while a call is in flight.
GenerateInsights ==
  /\ clicks < MaxClicks
  /\ clicks' = clicks + 1
  /\ IF ~isConnected
     THEN /\ insightsError' = AIUnavailableMessage
          /\ UNCHANGED <<insightsLoading, insightsInFlight, requestsIssued>>
     ELSE /\ insightsLoading' = TRUE
          /\ insightsError' = Null
          /\ insightsInFlight' = insightsInFlight + 1
          /\ requestsIssued' = requestsIssued + requestsOf(apiKey)
  /\ UNCHANGED <<insights, shown>>

\* generateInsights after analyzeCase resolved.
InsightsResolve(outcome, text) ==
  LET result == analyzeCase(apiKey, TRUE, outcome, text)
  IN  /\ insightsInFlight > 0
      /\ insightsInFlight' = insightsInFlight - 1
      /\ insightsLoading' = FALSE
      /\ IF result.threw
         THEN /\ insightsError' = "Failed to generate insights"
              /\ UNCHANGED <<insights, shown>>
         ELSE /\ insights' = result.value
              /\ shown' = shown \cup failureShown(apiKey, outcome, result.value.insights)
              /\ UNCHANGED insightsError
      /\ UNCHANGED <<clicks, requestsIssued>>

\* An AI Assist click and its answer, as the panels' log sees them.
AssistClickLogged ==
  /\ clicks < MaxClicks
  /\ clicks' = clicks + 1
  /\ AssistClick
  /\ requestsIssued' = requestsIssued + (IF isConnected THEN requestsOf(apiKey) ELSE 0)
  /\ UNCHANGED <<insights, insightsLoading, insightsError, insightsInFlight, shown>>

AssistResolveLogged(outcome, text) ==
  /\ AssistResolve(outcome, text)
  /\ shown' = shown \cup failureShown(apiKey, outcome,
                                      chatWithRTWExpert(apiKey, outcome, text).value)
  /\ UNCHANGED <<insights, insightsLoading, insightsError, insightsInFlight, clicks,
                 requestsIssued>>

(***************************************************************************)
(* Deleting a case: the cases table with its row-level DELETE policy, the  *)
(* documents table, the documents bucket and the delete dialog.            *)
(***************************************************************************)
\* cases.case_manager_id and profiles.role of the rows the model holds.
caseManagerOf == [c1 |-> "manager", c2 |-> "other"]
profiles == [manager |-> "case_manager", other |-> "case_manager", admin |-> "admin"]

\* A policy that lets every authenticated user delete.
anyAuthenticated(uid, caseId) == uid # "anon"

\* FOR DELETE TO authenticated USING (case_manager_id = auth.uid() OR EXISTS
\* (SELECT 1 FROM profiles WHERE id = auth.uid() AND role = 'admin'))
DeletePolicy(uid, caseId) ==
  /\ uid # "anon"
  /\ \/ caseManagerOf[caseId] = uid
     \/ profiles[uid] = "admin"

\* documents.case_id references cases ON DELETE CASCADE: the document rows
\* whose case is still there.
cascade(documents, cases) == {doc \in documents : doc.case_id \in cases}

\* supabase.from('cases').delete().eq('id', caseId): a failed request is an
\* error; else the row goes if the policy lets the requester see it, and a
\* request that matches no row is no error.
deleteCase(requester, caseId, dbOutcome) ==
  [threw |-> dbOutcome = "error",
   cases |-> IF dbOutcome = "ok" /\ caseId \in dbCases /\ DeletePolicy(requester, caseId)
             THEN dbCases \ {caseId} ELSE dbCases]

DeleteInit ==
  /\ session \in {"manager", "other", "admin", "anon"}
  /\ deleteTarget \in DOMAIN caseManagerOf
  /\ dbCases = DOMAIN caseManagerOf
  /\ dbDocuments = {}
  /\ storageFiles = {}
  /\ uploads = 0
  /\ modalOpen = FALSE
  /\ isDeleting = FALSE
  /\ deletesInFlight = 0
  /\ confirmations = 0
  /\ confirmCalls = 0
  /\ deleteResult = "none"

\* uploadDocument(file, caseId): the file goes to the bucket under
\* caseId/<timestamp>, then the document row is inserted; either step can fail.
UploadDocument(caseId, outcome) ==
  /\ uploads < MaxDocs
  /\ caseId \in dbCases
  /\ uploads' = uploads + 1
  /\ storageFiles' = IF outcome = "upload_error" THEN storageFiles
                     ELSE storageFiles \cup {<<caseId, uploads + 1>>}
  /\ dbDocuments' = IF outcome = "ok"
                    THEN dbDocuments \cup {[id |-> uploads + 1, case_id |-> caseId,
                                            file_path |-> <<caseId, uploads + 1>>]}
                    ELSE dbDocuments
  /\ UNCHANGED <<session, deleteTarget, dbCases, modalOpen, isDeleting, deletesInFlight,
                 confirmations, confirmCalls, deleteResult>>

\* The page opens the dialog for the case.
OpenDialog ==
  /\ ~modalOpen
  /\ modalOpen' = TRUE
  /\ UNCHANGED <<session, deleteTarget, dbCases, dbDocuments, storageFiles, uploads,
                 isDeleting, deletesInFlight, confirmations, confirmCalls, deleteResult>>

\* Buttons that stay enabled.
neverDisabled == FALSE

\* disabled={isDeleting} on the Cancel and the Delete button.
buttonsDisabled == isDeleting

\* onClose by the Cancel button, or by the dialog's own close button.
CloseDialog(byCancel) ==
  /\ modalOpen
  /\ byCancel => ~buttonsDisabled
  /\ modalOpen' = FALSE
  /\ UNCHANGED <<session, deleteTarget, dbCases, dbDocuments, storageFiles, uploads,
                 isDeleting, deletesInFlight, confirmations, confirmCalls, deleteResult>>

\* The page's onConfirm up to its await of deleteCase.
onConfirmStart ==
  /\ isDeleting' = TRUE
  /\ deletesInFlight' = deletesInFlight + 1

\* handleConfirm up to its await: a click on Delete calls onConfirm.
handleConfirm ==
  /\ modalOpen /\ ~buttonsDisabled
  /\ confirmations < MaxConfirms
  /\ confirmations' = confirmations + 1
  /\ confirmCalls' = confirmCalls + 1
  /\ onConfirmStart
  /\ UNCHANGED <<session, deleteTarget, dbCases, dbDocuments, storageFiles, uploads,
                 modalOpen, deleteResult>>

\* The page's onConfirm after deleteCase settled: isDeleting is reset and a
\* failure is passed on to the dialog.
onConfirmEnd == isDeleting' = FALSE

\* deleteCase settles, then onConfirm, then handleConfirm: onClose() after a
\* delete without error, the dialog stays open after a failed one.
DeleteSettles(dbOutcome) ==
  LET result == deleteCase(session, deleteTarget, dbOutcome)
  IN  /\ deletesInFlight > 0
      /\ deletesInFlight' = deletesInFlight - 1
      /\ dbCases' = result.cases
      /\ dbDocuments' = cascade(dbDocuments, result.cases)
      /\ deleteResult' = IF result.threw THEN "threw" ELSE "ok"
      /\ onConfirmEnd
      /\ modalOpen' = (result.threw /\ modalOpen)
      /\ UNCHANGED <<session, deleteTarget, storageFiles, uploads, confirmations,
                     confirmCalls>>

(***************************************************************************)
(* SupabaseService.getCurrentUser                                          *)
(***************************************************************************)
GetUserTimeoutMs == 5000
ProfileTimeoutMs == 8000

\* One call: what auth.getUser answers and after how many ms, what local
\* storage holds under the session key, what the profile query answers and
\* after how many ms.
UserCalls ==
  [getUser : {"user", "no_user", "reject"}, getUserMs : {1000, 5000, 9000},
   stored : {"missing", "not_json", "no_user_id", "session", "blocked"},
   profile : {"row", "error", "reject"}, profileMs : {1000, 8000, 12000}]

\* Promise.race of a call that settles after ms and a timer of timeoutMs.
raceWinners(ms, timeoutMs) ==
  IF ms < timeoutMs THEN {"call"}
  ELSE IF ms > timeoutMs THEN {"timer"}
  ELSE {"call", "timer"}

\* A fallback that finds no session.
noStoredUser(stored) == Null

\* The inner try of the fallback: the id of the stored session, if the item is
\* there, parses and has user.id.
storedUser(stored) == IF stored = "session" THEN "cached-id" ELSE Null

UserInit(calls) ==
  /\ userCall \in calls
  /\ userPc = "getUser"
  /\ user = Null
  /\ userResult = Pending

\* getCurrentUser up to 'if (!user) return null'.
GetUserSettles(winner) ==
  /\ userPc = "getUser"
  /\ winner \in raceWinners(userCall.getUserMs, GetUserTimeoutMs)
  /\ user' = IF winner = "call" /\ userCall.getUser # "reject"
             THEN (IF userCall.getUser = "user" THEN "live-id" ELSE Null)
             ELSE storedUser(userCall.stored)
  /\ IF user' = Null
     THEN userPc' = "done" /\ userResult' = settle(Returned(Null))
     ELSE userPc' = "profile" /\ UNCHANGED userResult
  /\ UNCHANGED userCall

\* getCurrentUser from the profile query to its return.
ProfileSettles(winner) ==
  /\ userPc = "profile"
  /\ winner \in raceWinners(userCall.profileMs, ProfileTimeoutMs)
  /\ userPc' = "done"
  /\ userResult' =
       settle(catchError(
                IF winner = "timer" \/ userCall.profile = "reject" THEN Thrown
                ELSE IF userCall.profile = "error" THEN Returned(Null)
                ELSE Returned("profile of " \o user),
                Null))
  /\ UNCHANGED <<userCall, user>>

(***************************************************************************)
(* The selected model: the persisted store, the Settings page and the      *)
(* selector of the AI service.                                             *)
(***************************************************************************)
defaultModel == "gpt-4o-mini"
Models == {"gpt-4o-mini", "gpt-4o", "gpt-4-turbo"}

\* The model every request is sent with, whatever was selected.
alwaysDefaultModel == defaultModel

\* AIService.getModel
getModel == IF getSelectedModel # Null THEN getSelectedModel ELSE defaultModel

\* A store that keeps nothing over a reload.
forget(stored) == defaultModel

\* persist: the stored selectedModel replaces the initial one when there is one.
rehydrate(stored) == IF stored = Null THEN defaultModel ELSE stored

\* The store and the service as a page load leaves them.
SettingsInit ==
  /\ selectedModel = defaultModel
  /\ storage = Null
  /\ getSelectedModel = Null
  /\ settingsOpen = FALSE
  /\ modelsResponse = Null
  /\ requestFlow = "idle"
  /\ sentModels = <<>>
  /\ sessions = 1

\* checkConnection as the Settings page calls it: every set of the store writes
\* the partialised state to the storage.
CheckConnection ==
  /\ CheckConnectionStart
  /\ storage' = selectedModel
  /\ modelsResponse' = Null

\* Mounting the Settings page: both effects set the selector to the model of
\* this render, the first one also calls checkConnection.
OpenSettings ==
  /\ ~settingsOpen
  /\ settingsOpen' = TRUE
  /\ getSelectedModel' = selectedModel
  /\ CheckConnection
  /\ UNCHANGED <<selectedModel, requestFlow, sentModels, sessions>>

CloseSettings ==
  /\ settingsOpen
  /\ settingsOpen' = FALSE
  /\ UNCHANGED <<storeVars, selectedModel, storage, getSelectedModel, modelsResponse, requestFlow,
                 sentModels, sessions>>

\* The Test Connection button of the Settings page, disabled while checking.
TestConnection ==
  /\ settingsOpen
  /\ connectionStatus # "checking"
  /\ CheckConnection
  /\ UNCHANGED <<selectedModel, getSelectedModel, settingsOpen, requestFlow, sentModels, sessions>>

\* The models endpoint answers a checkConnection call.
ModelsAnswer(answer) ==
  /\ CheckConnectionResolve(answer)
  /\ storage' = selectedModel
  /\ modelsResponse' = answer
  /\ UNCHANGED <<selectedModel, getSelectedModel, settingsOpen, requestFlow, sentModels, sessions>>

\* A radio button of the Settings page: setSelectedModel, then the effect on
\* [selectedModel] of the render that follows.
SelectModel(modelId) ==
  /\ settingsOpen
  /\ selectedModel' = modelId
  /\ storage' = modelId
  /\ getSelectedModel' = modelId
  /\ UNCHANGED <<storeVars, settingsOpen, modelsResponse, requestFlow, sentModels, sessions>>

\* The page is loaded again: the store is created anew and rehydrated, the
\* module of the service is evaluated anew, requests in flight are gone.
Reload ==
  /\ sessions < MaxSessions
  /\ sessions' = sessions + 1
  /\ selectedModel' = rehydrate(storage)
  /\ connectionStatus' = "disconnected"
  /\ isConnected' = FALSE
  /\ errorMessage' = Null
  /\ checksInFlight' = 0
  /\ getSelectedModel' = Null
  /\ settingsOpen' = FALSE
  /\ modelsResponse' = Null
  /\ requestFlow' = "idle"
  /\ sentModels' = <<>>
  /\ UNCHANGED <<apiKey, storage>>

\* A chat message, Generate Insights or AI Assist: the handler runs only while
\* isConnected and sends its completion request when the client exists.
StartRequest ==
  /\ isConnected
  /\ requestFlow = "idle"
  /\ Len(sentModels) < MaxRequests
  /\ requestFlow' = "awaiting"
  /\ sentModels' = IF hasValidKey(apiKey) THEN Append(sentModels, getModel) ELSE sentModels
  /\ UNCHANGED <<storeVars, selectedModel, storage, getSelectedModel, settingsOpen,
                 modelsResponse, sessions>>

\* The completion is back: the handler ends, or (a populate message of the chat)
\* sends its second request without looking at isConnected.
FinishRequest(again) ==
  /\ requestFlow = "awaiting"
  /\ requestFlow' = "idle"
  /\ sentModels' = IF again /\ hasValidKey(apiKey) /\ Len(sentModels) < MaxRequests
                   THEN Append(sentModels, getModel) ELSE sentModels
  /\ UNCHANGED <<storeVars, selectedModel, storage, getSelectedModel, settingsOpen,
                 modelsResponse, sessions>>

(***************************************************************************)
(* The auth store: initialize.                                             *)
(***************************************************************************)
\* Rows of the profiles table.
Profiles ==
  { [id |-> "u1", name |-> "Ana", email |-> "ana@example.com",
     role |-> "case_manager", avatar_url |-> Null],
    [id |-> "u2", name |-> "Bo", email |-> "bo@example.com",
     role |-> "admin", avatar_url |-> "bo.png"] }

\* A user without any field of the profile.
blankUser(profile) ==
  [id |-> "", name |-> "", email |-> "", role |-> "", avatar |-> "undefined"]

createUser(profile) ==
  [id |-> profile.id, name |-> profile.name, email |-> profile.email,
   role |-> profile.role,
   avatar |-> IF profile.avatar_url \in {Null, ""} THEN "undefined"
              ELSE profile.avatar_url]

TimeoutMessage == "Authentication timeout. Please try refreshing the page."

AuthInit ==
  /\ authUser = {}
  /\ isAuthenticated = FALSE
  /\ isLoading = FALSE
  /\ authError = Null
  /\ initCalls = <<>>

\* set({ user: null, isAuthenticated: false, isLoading: false, error })
setUnauthenticated(message) ==
  /\ authUser' = {}
  /\ isAuthenticated' = FALSE
  /\ isLoading' = FALSE
  /\ authError' = message

\* clearTimeout(timeoutId): a timer that has not fired never will.
clearTimeout(timer) == IF timer = "armed" THEN "cleared" ELSE timer

\* initialize up to its first await: nothing while isLoading, else isLoading is
\* set and the connection test is awaited.
Initialize ==
  /\ Len(initCalls) < MaxInits
  /\ IF isLoading THEN UNCHANGED authVars
     ELSE /\ isLoading' = TRUE
          /\ authError' = Null
          /\ initCalls' = Append(initCalls, [pc |-> "test", timer |-> "none"])
          /\ UNCHANGED <<authUser, isAuthenticated>>

\* testSupabaseConnection answers call i: whatever the answer, the timeout is
\* set and getSession is awaited.
ConnectionTested(i, connected) ==
  /\ i \in DOMAIN initCalls
  /\ initCalls[i].pc = "test"
  /\ initCalls' = [initCalls EXCEPT ![i] = [pc |-> "session", timer |-> "armed"]]
  /\ UNCHANGED <<authUser, isAuthenticated, isLoading, authError>>

\* The callback of setTimeout(..., 5000) of call i.
TimeoutFires(i) ==
  /\ i \in DOMAIN initCalls
  /\ initCalls[i].timer = "armed"
  /\ setUnauthenticated(TimeoutMessage)
  /\ initCalls' = [initCalls EXCEPT ![i].timer = "fired"]

\* getSession answers call i: an error, no session, or a session with a user.
SessionAnswers(i, answer) ==
  /\ i \in DOMAIN initCalls
  /\ initCalls[i].pc = "session"
  /\ CASE answer = "error" ->
            /\ setUnauthenticated("session error")
            /\ initCalls' = [initCalls EXCEPT ![i] =
                               [pc |-> "done", timer |-> clearTimeout(@.timer)]]
       [] answer = "none" ->
            /\ setUnauthenticated(Null)
            /\ initCalls' = [initCalls EXCEPT ![i] =
                               [pc |-> "done", timer |-> clearTimeout(@.timer)]]
       [] OTHER ->
            /\ initCalls' = [initCalls EXCEPT ![i].pc = "profile"]
            /\ UNCHANGED <<authUser, isAuthenticated, isLoading, authError>>

\* getCurrentUser answers call i with a profile (one element) or null (none).
ProfileAnswers(i, profile) ==
  /\ i \in DOMAIN initCalls
  /\ initCalls[i].pc = "profile"
  /\ initCalls' = [initCalls EXCEPT ![i] =
                     [pc |-> "done", timer |-> clearTimeout(@.timer)]]
  /\ IF profile # {}
     THEN /\ authUser' = {createUser(p) : p \in profile}
          /\ isAuthenticated' = TRUE
          /\ isLoading' = FALSE
          /\ authError' = Null
     ELSE setUnauthenticated(Null)

(***************************************************************************)
(* login, logout and the listener of supabase.auth.onAuthStateChange.      *)
(***************************************************************************)
SignInInit ==
  /\ loginPc = "none"
  /\ logouts = 0
  /\ authEvents = 0
  /\ signedOutEvents = 0
  /\ profileFetches = 0

\* login up to its first await; it does not look at isLoading.
LoginStart ==
  /\ loginPc = "none"
  /\ loginPc' = "pending"
  /\ isLoading' = TRUE
  /\ authError' = Null
  /\ UNCHANGED <<authUser, isAuthenticated, initCalls, logouts, authEvents,
                 signedOutEvents, profileFetches>>

\* How signIn and getCurrentUser end for login: signIn rejects, signIn gives no
\* user, getCurrentUser gives null, or it gives a profile.
LoginOutcomes ==
  {[kind |-> k, profile |-> {}] : k \in {"rejected", "no_user", "no_profile"}}
    \cup {[kind |-> "profile", profile |-> {p}] : p \in Profiles}

\* What login writes after its awaits (isLoading: false in every case).
loginResult(outcome) ==
  CASE outcome.kind = "profile" ->
         [user |-> {createUser(p) : p \in outcome.profile}, isAuthenticated |-> TRUE,
          error |-> Null]
    [] outcome.kind = "rejected" ->
         [user |-> authUser, isAuthenticated |-> isAuthenticated,
          error |-> "Invalid login credentials"]
    [] outcome.kind = "no_user" ->
         [user |-> authUser, isAuthenticated |-> isAuthenticated,
          error |-> "Authentication failed"]
    [] OTHER ->
         [user |-> authUser, isAuthenticated |-> isAuthenticated,
          error |-> "Profile not found"]

\* login from the answer of its awaits to its end.
LoginSettles(outcome) ==
  /\ loginPc = "pending"
  /\ loginPc' = IF outcome.kind = "profile" THEN "succeeded" ELSE "failed"
  /\ authUser' = loginResult(outcome).user
  /\ isAuthenticated' = loginResult(outcome).isAuthenticated
  /\ isLoading' = FALSE
  /\ authError' = loginResult(outcome).error
  /\ UNCHANGED <<initCalls, logouts, authEvents, signedOutEvents, profileFetches>>

\* logout: whatever signOut does, the finally block clears the store.
Logout ==
  /\ logouts < MaxLogouts
  /\ logouts' = logouts + 1
  /\ setUnauthenticated(Null)
  /\ UNCHANGED <<initCalls, loginPc, authEvents, signedOutEvents, profileFetches>>

AuthEvents == {"SIGNED_IN", "SIGNED_OUT", "TOKEN_REFRESHED"}

\* The listener of authStore.ts up to its await: SIGNED_OUT or no session
\* clears the store; SIGNED_IN while not authenticated asks for the profile.
OnAuthStateChange(event, eventSession) ==
  /\ authEvents < MaxAuthEvents
  /\ authEvents' = authEvents + 1
  /\ IF event = "SIGNED_OUT" \/ eventSession = {}
     THEN /\ setUnauthenticated(Null)
          /\ signedOutEvents' = signedOutEvents + 1
          /\ UNCHANGED profileFetches
     ELSE IF event = "SIGNED_IN" /\ ~isAuthenticated
     THEN /\ profileFetches' = profileFetches + 1
          /\ UNCHANGED <<authUser, isAuthenticated, isLoading, authError, signedOutEvents>>
     ELSE UNCHANGED <<authUser, isAuthenticated, isLoading, authError, signedOutEvents,
                      profileFetches>>
  /\ UNCHANGED <<initCalls, loginPc, logouts>>

\* getCurrentUser answers the listener of authStore.ts (it never throws).
ListenerProfile(profile) ==
  /\ profileFetches > 0
  /\ profileFetches' = profileFetches - 1
  /\ IF profile # {}
     THEN /\ authUser' = {createUser(p) : p \in profile}
          /\ isAuthenticated' = TRUE
          /\ isLoading' = FALSE
          /\ authError' = Null
     ELSE UNCHANGED <<authUser, isAuthenticated, isLoading, authError>>
  /\ UNCHANGED <<initCalls, loginPc, logouts, authEvents, signedOutEvents>>

\* session.user.email?.split('@')[0] || 'User'
emailName(email) ==
  CASE email = "ana@example.com" -> "ana"
    [] email = "bo@example.com" -> "bo"
    [] OTHER -> "User"

\* The user the later listener makes from the session alone.
basicUser(sessionUser) ==
  [id |-> sessionUser.id, name |-> emailName(sessionUser.email),
   email |-> sessionUser.email, role |-> "consultant", avatar |-> "undefined"]

\* The sessions an event carries: none, or the one of a user with a profile.
Sessions == {{}} \cup {{[id |-> p.id, email |-> p.email]} : p \in Profiles}

\* The later listener: SIGNED_IN while not authenticated signs the session's
\* user in at once and asks for the profile in the background.
OnAuthStateChangeBackground(event, eventSession) ==
  /\ authEvents < MaxAuthEvents
  /\ authEvents' = authEvents + 1
  /\ IF event = "SIGNED_OUT" \/ eventSession = {}
     THEN /\ setUnauthenticated(Null)
          /\ signedOutEvents' = signedOutEvents + 1
          /\ UNCHANGED profileFetches
     ELSE IF event = "SIGNED_IN" /\ ~isAuthenticated
     THEN /\ authUser' = {basicUser(u) : u \in eventSession}
          /\ isAuthenticated' = TRUE
          /\ isLoading' = FALSE
          /\ authError' = Null
          /\ profileFetches' = profileFetches + 1
          /\ UNCHANGED signedOutEvents
     ELSE UNCHANGED <<authUser, isAuthenticated, isLoading, authError, signedOutEvents,
                      profileFetches>>
  /\ UNCHANGED <<initCalls, loginPc, logouts>>

\* getCurrentUser answers the background fetch: a profile replaces user.
BackgroundProfile(profile) ==
  /\ profileFetches > 0
  /\ profileFetches' = profileFetches - 1
  /\ authUser' = IF profile # {} THEN {createUser(p) : p \in profile} ELSE authUser
  /\ UNCHANGED <<isAuthenticated, isLoading, authError>>
  /\ UNCHANGED <<initCalls, loginPc, logouts, authEvents, signedOutEvents>>

(***************************************************************************)
(* SupabaseService: getCases, getCase, createCase and the case transforms. *)
(***************************************************************************)
\* A row of the cases table as a select of every column and of the child
\* tables returns it. absent names the array columns that are null or that the
\* select did not ask for.
DbCase(id, managerId, consultantId, documents) ==
  [id |-> id, worker_data |-> "worker of " \o id, employer_data |-> "employer of " \o id,
   case_manager_id |-> managerId, claim_number |-> "CLM-" \o id,
   injury_date |-> "2024-01-10", injury_description |-> "sprain",
   first_certificate_date |-> "2024-01-12", planned_rtw_date |-> "2024-03-01",
   review_dates |-> <<"2024-02-01">>, rtw_plan |-> Null,
   consultant_id |-> consultantId, status |-> "open", claim_type |-> "insured",
   jurisdiction |-> "NSW", agent |-> "agent", wages_salary |-> Null,
   piawe_calculation |-> Null, outcome |-> Null,
   created_at |-> "2024-01-15", updated_at |-> "2024-01-16",
   workcover_type |-> "workcover-a",
   documents |-> documents, communications |-> <<>>, case_notes |-> <<>>,
   supervisor_notes |-> <<>>, stakeholders |-> <<>>,
   absent |-> {}]

\* Three rows: managed by u1, by u2, and by a user without a profile row.
CaseRows ==
  << DbCase("c1", "u1", "u2",
            << [id |-> "d1", name |-> "cert.pdf", file_type |-> "application/pdf",
                file_path |-> "c1/cert.pdf", created_at |-> "2024-01-20",
                file_size |-> "2048", category |-> "medical"] >>),
     DbCase("c2", "u2", Null, <<>>),
     [DbCase("c3", "u7", Null, <<>>) EXCEPT !.absent = {"review_dates", "documents"}] >>

\* The select list of getCases: no workcover_type, no child tables.
leanSelect(row) ==
  [row EXCEPT !.workcover_type = "undefined",
              !.absent = @ \cup {"documents", "communications", "case_notes",
                                 "supervisor_notes", "stakeholders"}]

\* dbCase[column] || []
orEmpty(dbCase, column) == IF column \in dbCase.absent THEN <<>> ELSE dbCase[column]

\* new Map(profiles?.map(p => [p.id, p]) || [])
profileMapOf(fetched) ==
  [id \in {p.id : p \in fetched} |-> CHOOSE p \in fetched : p.id = id]

\* A case manager that takes nothing from the row.
defaultManager(dbCase, profileMap) ==
  [id |-> "", name |-> "Case Manager", email |-> "", phone |-> "",
   role |-> "consultant", avatar |-> "undefined"]

\* const caseManager of transformCaseFromDB
caseManager(dbCase, profileMap) ==
  IF dbCase.case_manager_id \in DOMAIN profileMap
  THEN LET caseManagerProfile == profileMap[dbCase.case_manager_id]
       IN  [id |-> caseManagerProfile.id, name |-> caseManagerProfile.name,
            email |-> caseManagerProfile.email, phone |-> "",
            role |-> caseManagerProfile.role, avatar |-> caseManagerProfile.avatar_url]
  ELSE [id |-> dbCase.case_manager_id, name |-> "Case Manager", email |-> "",
        phone |-> "", role |-> "consultant", avatar |-> "undefined"]

documentFromDB(doc) ==
  [id |-> doc.id, name |-> doc.name, type |-> doc.file_type,
   url |-> "public/" \o doc.file_path, uploadDate |-> doc.created_at,
   size |-> doc.file_size, category |-> doc.category]

\* The rows of communications, case_notes, supervisor_notes and stakeholders are
\* mapped field by field like the documents; the rows above have none.
transformCaseFromDB(dbCase, profileMap) ==
  [id |-> dbCase.id, worker |-> dbCase.worker_data, employer |-> dbCase.employer_data,
   caseManager |-> caseManager(dbCase, profileMap),
   claimNumber |-> dbCase.claim_number, injuryDate |-> dbCase.injury_date,
   injuryDescription |-> dbCase.injury_description,
   firstCertificateDate |-> dbCase.first_certificate_date,
   plannedRtwDate |-> dbCase.planned_rtw_date,
   reviewDates |-> orEmpty(dbCase, "review_dates"),
   documents |-> [k \in 1..Len(orEmpty(dbCase, "documents")) |->
                    documentFromDB(orEmpty(dbCase, "documents")[k])],
   communications |-> orEmpty(dbCase, "communications"),
   notes |-> orEmpty(dbCase, "case_notes"),
   supervisorNotes |-> orEmpty(dbCase, "supervisor_notes"),
   stakeholders |-> orEmpty(dbCase, "stakeholders"),
   rtwPlan |-> dbCase.rtw_plan, consultant |-> dbCase.consultant_id,
   status |-> dbCase.status, claimType |-> dbCase.claim_type,
   jurisdiction |-> dbCase.jurisdiction, agent |-> dbCase.agent,
   wagesSalary |-> dbCase.wages_salary, piaweCalculation |-> dbCase.piawe_calculation,
   outcome |-> dbCase.outcome, createdAt |-> dbCase.created_at,
   updatedAt |-> dbCase.updated_at, workcoverType |-> dbCase.workcover_type]

transformCaseForDB(newCase) ==
  [worker_data |-> newCase.worker, employer_data |-> newCase.employer,
   case_manager_id |-> newCase.caseManager.id, claim_number |-> newCase.claimNumber,
   injury_date |-> newCase.injuryDate, injury_description |-> newCase.injuryDescription,
   first_certificate_date |-> newCase.firstCertificateDate,
   planned_rtw_date |-> newCase.plannedRtwDate, review_dates |-> newCase.reviewDates,
   rtw_plan |-> newCase.rtwPlan, consultant_id |-> newCase.consultant,
   status |-> newCase.status, claim_type |-> newCase.claimType,
   jurisdiction |-> newCase.jurisdiction, agent |-> newCase.agent,
   wages_salary |-> newCase.wagesSalary, piawe_calculation |-> newCase.piaweCalculation,
   outcome |-> newCase.outcome]

\* The case a form hands to createCase for the manager given.
NewCase(manager) ==
  [worker |-> "worker of new", employer |-> "employer of new", caseManager |-> manager,
   claimNumber |-> "CLM-new", injuryDate |-> "2024-05-02", injuryDescription |-> "strain",
   firstCertificateDate |-> "2024-05-03", plannedRtwDate |-> "2024-07-01",
   reviewDates |-> <<>>, documents |-> <<>>, communications |-> <<>>, notes |-> <<>>,
   supervisorNotes |-> <<>>, stakeholders |-> <<>>, rtwPlan |-> Null,
   consultant |-> Null, status |-> "open", claimType |-> "insured",
   jurisdiction |-> "NSW", agent |-> "agent", wagesSalary |-> Null,
   piaweCalculation |-> Null, outcome |-> Null, workcoverType |-> "workcover-b"]

\* The row the insert of createCase answers with: the columns given, the id and
\* the dates the database sets, the other columns null, no child rows.
insertedRow(dbCase) ==
  dbCase @@ [id |-> "c9", created_at |-> "2024-05-04", updated_at |-> "2024-05-04",
             workcover_type |-> Null, documents |-> <<>>, communications |-> <<>>,
             case_notes |-> <<>>, supervisor_notes |-> <<>>, stakeholders |-> <<>>,
             absent |-> {}]

\* A connection test that never fails.
assumeConnected(answer, winner) == [connected |-> TRUE, error |-> "undefined"]

\* testDatabaseConnection: the request to the REST root answers with answer, or
\* the abort timer wins and fetch rejects; it always returns.
testDatabaseConnection(answer, winner) ==
  IF winner = "timer" THEN [connected |-> FALSE, error |-> "The operation was aborted"]
  ELSE IF answer = "network" THEN [connected |-> FALSE, error |-> "Failed to fetch"]
  ELSE IF answer # "ok" THEN [connected |-> FALSE, error |-> "HTTP 500"]
  ELSE [connected |-> TRUE, error |-> "undefined"]

\* What a call meets: the answers of the connection test and of the queries and
\* the time they take.
CasesCalls ==
  [method : {"getCases"}, health : {"ok", "http_500", "network"},
   healthMs : {1000, 5000, 6000}, query : {"rows", "error"},
   queryMs : {1000, 15000, 20000}, rows : {<<>>, CaseRows}]
  \cup
  [method : {"getCase"}, query : {"row", "not_found", "error"},
   row : {CaseRows[k] : k \in DOMAIN CaseRows}, fetched : SUBSET Profiles]
  \cup
  [method : {"createCase"}, query : {"row", "error"},
   caseData : {NewCase(createUser(p)) : p \in Profiles}, fetched : SUBSET Profiles]

CasesInit(calls) ==
  /\ casesCall \in calls
  /\ casesPc = "start"
  /\ casesRow = <<>>
  /\ casesResult = Pending

\* getCases up to the cases query: a failed connection test throws into the
\* catch, which returns [].
GetCasesHealth(winner) ==
  /\ casesCall.method = "getCases" /\ casesPc = "start"
  /\ winner \in raceWinners(casesCall.healthMs, HealthTimeoutMs)
  /\ IF testDatabaseConnection(casesCall.health, winner).connected
     THEN casesPc' = "query" /\ UNCHANGED casesResult
     ELSE casesPc' = "done" /\ casesResult' = settle(catchError(Thrown, <<>>))
  /\ UNCHANGED <<casesCall, casesRow>>

\* getCases from Promise.race to its return.
GetCasesQuery(winner) ==
  /\ casesCall.method = "getCases" /\ casesPc = "query"
  /\ winner \in raceWinners(casesCall.queryMs, CasesTimeoutMs)
  /\ casesPc' = "done"
  /\ casesResult' =
       settle(catchError(
         IF winner = "timer" \/ casesCall.query = "error" THEN Thrown
         ELSE Returned([k \in 1..Len(casesCall.rows) |->
                         transformCaseFromDB(leanSelect(casesCall.rows[k]), <<>>)]),
         <<>>))
  /\ UNCHANGED <<casesCall, casesRow>>

\* getCase up to the profiles query: no row and every error give null.
GetCaseRow ==
  /\ casesCall.method = "getCase" /\ casesPc = "start"
  /\ IF casesCall.query = "row"
     THEN /\ casesPc' = "profiles"
          /\ casesRow' = <<casesCall.row>>
          /\ UNCHANGED casesResult
     ELSE /\ casesPc' = "done"
          /\ casesResult' =
               settle(catchError(IF casesCall.query = "not_found" THEN Returned(<<>>)
                                 ELSE Thrown, <<>>))
          /\ UNCHANGED casesRow
  /\ UNCHANGED casesCall

\* createCase up to the profiles query: an error of the insert is thrown.
CreateCaseInsert ==
  /\ casesCall.method = "createCase" /\ casesPc = "start"
  /\ IF casesCall.query = "row"
     THEN /\ casesPc' = "profiles"
          /\ casesRow' = <<insertedRow(transformCaseForDB(casesCall.caseData))>>
          /\ UNCHANGED casesResult
     ELSE /\ casesPc' = "done"
          /\ casesResult' = settle(Thrown)
          /\ UNCHANGED casesRow
  /\ UNCHANGED casesCall

\* getCase and createCase from the profiles query to their return.
ProfilesFetched ==
  /\ casesPc = "profiles"
  /\ casesPc' = "done"
  /\ casesResult' =
       settle(Returned(<<transformCaseFromDB(casesRow[1],
                                             profileMapOf(casesCall.fetched))>>))
  /\ UNCHANGED <<casesCall, casesRow>>

\* Nothing selected, nobody signed in, no call under way.
SessionIdle ==
  /\ SettingsInit /\ AuthInit /\ SignInInit
  /\ CasesInit({[method |-> "getCase", query |-> "not_found", row |-> CaseRows[1],
                 fetched |-> {}]})

(***************************************************************************)
(* Specifications.                                                         *)
(***************************************************************************)
ParserInit(responses) ==
  /\ aiResponse \in responses
  /\ recommendations = EmptyRecommendations
  /\ parserPc = "ready"

\* const recommendations = parseRTWRecommendations(rtwRecommendations)
ParseResponse ==
  /\ parserPc = "ready"
  /\ recommendations' = parseRTWRecommendations(aiResponse)
  /\ parserPc' = "parsed"
  /\ UNCHANGED aiResponse

NoKey == [defined |-> FALSE, text |-> <<>>]

\* The panels before any use.
PanelsInit == ChatInit({FALSE}) /\ InsightsInit /\ LogInit

\* No dialog and no getCurrentUser call.
RestInit ==
  /\ DeleteInit /\ session = "manager" /\ deleteTarget = "c1"
  /\ UserInit({[getUser |-> "user", getUserMs |-> 1000, stored |-> "missing",
                profile |-> "row", profileMs |-> 1000]})

\* The response parser run on every response of the bounded set.
NextParser == ParseResponse /\ UNCHANGED
            <<storeVars, plannerVars, serviceVars, aiVars, deleteVars, userVars, sessionVars>>
InitParser ==
  /\ SessionIdle
  /\ ParserInit(Responses) /\ StoreInit({NoKey}) /\ PlannerInit({BlankCase})
  /\ ServiceInit({NoCall}) /\ PanelsInit /\ RestInit
SpecParser == InitParser /\ [][NextParser]_vars

\* The planner form of one case, opened with or without a connection.
NextPlanner ==
  \/ \E field \in InputFields, value \in FieldValues :
        handleInputChange(field, value)
          /\ UNCHANGED
            <<parserVars, storeVars, serviceVars, aiVars, deleteVars, userVars, sessionVars>>
  \/ \E week \in {"week1Hours", "week2Hours", "week3Hours", "week4Hours"},
        day \in DayInputs :
        handleWeekHoursChange(week, day, "4")
          /\ UNCHANGED
            <<parserVars, storeVars, serviceVars, aiVars, deleteVars, userVars, sessionVars>>
  \/ \E popupAllowed \in BOOLEAN :
        generatePDF(popupAllowed) /\ UNCHANGED
            <<parserVars, storeVars, serviceVars, aiVars, deleteVars, userVars, sessionVars>>
  \/ AssistClick /\ UNCHANGED
            <<parserVars, storeVars, serviceVars, aiVars, deleteVars, userVars, sessionVars>>
  \/ \E outcome \in CompletionOutcomes, text \in CompletionTexts :
        AssistResolve(outcome, text)
          /\ UNCHANGED
            <<parserVars, storeVars, serviceVars, aiVars, deleteVars, userVars, sessionVars>>
  \/ \E text \in CompletionTexts :
        PopulateFromAI(text) /\ UNCHANGED
            <<parserVars, storeVars, serviceVars, aiVars, deleteVars, userVars, sessionVars>>
InitPlanner ==
  /\ SessionIdle
  /\ ParserInit({<<>>}) /\ PlannerInit(Cases) /\ ServiceInit({NoCall}) /\ PanelsInit /\ RestInit
  /\ \/ StoreInit({NoKey})
     \/ /\ apiKey = [defined |-> TRUE, text |-> <<"sk-live-key">>]
        /\ connectionStatus = "connected" /\ isConnected = TRUE
        /\ errorMessage = Null /\ checksInFlight = 0
SpecPlanner == InitPlanner /\ [][NextPlanner]_vars

\* One call of a method of the AI service, for every key and every outcome.
NextService ==
  \/ AnalyzeCase /\ UNCHANGED
            <<parserVars, storeVars, plannerVars, aiVars, deleteVars, userVars, sessionVars>>
  \/ ChatWithRTWExpert /\ UNCHANGED
            <<parserVars, storeVars, plannerVars, aiVars, deleteVars, userVars, sessionVars>>
  \/ AnalyzeDocument /\ UNCHANGED
            <<parserVars, storeVars, plannerVars, aiVars, deleteVars, userVars, sessionVars>>
InitService ==
  /\ SessionIdle
  /\ ParserInit({<<>>}) /\ StoreInit(ApiKeys) /\ PlannerInit({BlankCase}) /\ PanelsInit /\ RestInit
  /\ ServiceInit({c \in ServiceCalls : c.method = "analyzeCase" \/ c.stringifies})
SpecService == InitService /\ [][NextService]_vars

\* The three AI panels over the settings store: the chatbot (one message), the
\* insights panel and the planner's AI Assist, while checkConnection runs.
NextAI ==
  \/ CheckConnectionStart /\ UNCHANGED
            <<parserVars, plannerVars, serviceVars, aiVars, deleteVars, userVars, sessionVars>>
  \/ \E answer \in ModelsAnswers :
        CheckConnectionResolve(answer)
          /\ UNCHANGED
            <<parserVars, plannerVars, serviceVars, aiVars, deleteVars, userVars, sessionVars>>
  \/ Navigate
       /\ UNCHANGED
            <<parserVars, storeVars, plannerVars, serviceVars, insightVars, deleteVars, userVars, sessionVars>>
  \/ ToggleChatbot
       /\ UNCHANGED
            <<parserVars, storeVars, plannerVars, serviceVars, insightVars, deleteVars, userVars, sessionVars>>
  \/ \E input \in ChatInputs :
        submits = 0 /\ ProcessUserMessage(input)
          /\ UNCHANGED
            <<parserVars, storeVars, plannerVars, serviceVars, insightVars, deleteVars, userVars, sessionVars>>
  \/ \E outcome \in CompletionOutcomes, text \in CompletionTexts :
        RtwResolve(outcome, text)
          /\ UNCHANGED
            <<parserVars, storeVars, plannerVars, serviceVars, insightVars, deleteVars, userVars, sessionVars>>
  \/ \E outcome \in CompletionOutcomes, text \in CompletionTexts :
        FinalResolve(outcome, text)
          /\ UNCHANGED
            <<parserVars, storeVars, plannerVars, serviceVars, insightVars, deleteVars, userVars, sessionVars>>
  \/ GenerateInsights
       /\ UNCHANGED
            <<parserVars, storeVars, plannerVars, serviceVars, chatVars, deleteVars, userVars, sessionVars>>
  \/ \E outcome \in CompletionOutcomes, text \in AnalysisTexts :
        InsightsResolve(outcome, text)
          /\ UNCHANGED
            <<parserVars, storeVars, plannerVars, serviceVars, chatVars, deleteVars, userVars, sessionVars>>
  \/ AssistClickLogged /\ UNCHANGED
            <<parserVars, storeVars, serviceVars, chatVars, deleteVars, userVars, sessionVars>>
  \/ \E outcome \in CompletionOutcomes, text \in CompletionTexts :
        AssistResolveLogged(outcome, text)
          /\ UNCHANGED
            <<parserVars, storeVars, serviceVars, chatVars, deleteVars, userVars, sessionVars>>
InitAI ==
  /\ SessionIdle
  /\ ParserInit({<<>>}) /\ StoreInit(ApiKeys) /\ PlannerInit({CompleteCase})
  /\ ServiceInit({NoCall}) /\ ChatInit(BOOLEAN) /\ InsightsInit /\ LogInit /\ RestInit
SpecAI == InitAI /\ [][NextAI]_vars

\* The chatbot alone over a connected store: the panel is opened and closed,
\* messages are submitted and answered, action buttons are clicked.
ConnectedStore ==
  /\ apiKey = [defined |-> TRUE, text |-> <<"sk-live-key">>]
  /\ connectionStatus = "connected" /\ isConnected = TRUE
  /\ errorMessage = Null /\ checksInFlight = 0
\* A request is answered with the four-line completion or fails on the network.
ChatOutcomes == {"ok", "network"}
ChatTexts == {t \in CompletionTexts : Len(t) = 4}
RtwAnswers ==
  \E outcome \in ChatOutcomes, text \in ChatTexts :
     RtwResolve(outcome, text)
       /\ UNCHANGED <<parserVars, storeVars, plannerVars, serviceVars, insightVars,
                      deleteVars, userVars, sessionVars>>
FinalAnswers ==
  \E outcome \in ChatOutcomes, text \in ChatTexts :
     FinalResolve(outcome, text)
       /\ UNCHANGED <<parserVars, storeVars, plannerVars, serviceVars, insightVars,
                      deleteVars, userVars, sessionVars>>
NextChat ==
  \/ Navigate
       /\ UNCHANGED <<parserVars, storeVars, plannerVars, serviceVars, insightVars,
                      deleteVars, userVars, sessionVars>>
  \/ ToggleChatbot
       /\ UNCHANGED <<parserVars, storeVars, plannerVars, serviceVars, insightVars,
                      deleteVars, userVars, sessionVars>>
  \/ \E input \in ChatInputs :
        ProcessUserMessage(input)
          /\ UNCHANGED <<parserVars, storeVars, plannerVars, serviceVars, insightVars,
                         deleteVars, userVars, sessionVars>>
  \/ RtwAnswers
  \/ FinalAnswers
  \/ \E m \in 1..(2 * MaxSubmits + MaxActionClicks + 1), k \in 1..2,
        rtwPlannerRef \in BOOLEAN, currentCaseId \in CaseIds, listed \in BOOLEAN :
        HandleActionClick(m, k, rtwPlannerRef, currentCaseId, listed)
          /\ UNCHANGED <<parserVars, storeVars, serviceVars, insightVars, deleteVars,
                         userVars, sessionVars>>
InitChat ==
  /\ SessionIdle
  /\ ParserInit({<<>>}) /\ ConnectedStore /\ PlannerInit({CompleteCase})
  /\ ServiceInit({NoCall}) /\ ChatInit(BOOLEAN) /\ InsightsInit /\ LogInit /\ RestInit
SpecChat == InitChat /\ [][NextChat]_vars
\* The await of the populate prompt is over: the step RtwAnswers takes, told by
\* the place processUserMessage waits at. It is possible exactly when
\* RtwAnswers is.
RtwSettles == chatPc = "rtw_wait" /\ chatPc' = "final_wait"
\* Every completion request is answered or rejected in the end.
SpecChatFair ==
  InitChat /\ [][NextChat]_vars /\ WF_chatPc(RtwSettles) /\ WF_vars(FinalAnswers)

\* The delete dialog of one case over the database and the bucket.
QuietInit ==
  /\ ParserInit({<<>>}) /\ StoreInit({NoKey}) /\ PlannerInit({BlankCase})
  /\ ServiceInit({NoCall}) /\ PanelsInit
InitDelete ==
  /\ SessionIdle
  /\ QuietInit /\ DeleteInit
  /\ UserInit({[getUser |-> "user", getUserMs |-> 1000, stored |-> "missing",
                profile |-> "row", profileMs |-> 1000]})
NextDelete ==
  \/ \E caseId \in DOMAIN caseManagerOf, outcome \in {"ok", "upload_error", "insert_error"} :
        UploadDocument(caseId, outcome)
          /\ UNCHANGED <<parserVars, storeVars, plannerVars, serviceVars, aiVars, userVars, sessionVars>>
  \/ OpenDialog
       /\ UNCHANGED <<parserVars, storeVars, plannerVars, serviceVars, aiVars, userVars, sessionVars>>
  \/ \E byCancel \in BOOLEAN :
        CloseDialog(byCancel)
          /\ UNCHANGED <<parserVars, storeVars, plannerVars, serviceVars, aiVars, userVars, sessionVars>>
  \/ handleConfirm
       /\ UNCHANGED <<parserVars, storeVars, plannerVars, serviceVars, aiVars, userVars, sessionVars>>
  \/ \E dbOutcome \in {"ok", "error"} :
        DeleteSettles(dbOutcome)
          /\ UNCHANGED <<parserVars, storeVars, plannerVars, serviceVars, aiVars, userVars, sessionVars>>
SpecDelete == InitDelete /\ [][NextDelete]_vars

\* One call of getCurrentUser, for everything its environment can do.
InitUser ==
  /\ SessionIdle
  /\ QuietInit /\ DeleteInit /\ session = "manager" /\ deleteTarget = "c1"
  /\ UserInit(UserCalls)
NextUser ==
  \/ \E winner \in {"call", "timer"} :
        GetUserSettles(winner)
          /\ UNCHANGED <<parserVars, storeVars, plannerVars, serviceVars, aiVars, deleteVars, sessionVars>>
  \/ \E winner \in {"call", "timer"} :
        ProfileSettles(winner)
          /\ UNCHANGED <<parserVars, storeVars, plannerVars, serviceVars, aiVars, deleteVars, sessionVars>>
SpecUser == InitUser /\ [][NextUser]_vars

\* The Settings page, the store and the requests of the panels over reloads.
NextSettings ==
  \/ OpenSettings /\ UNCHANGED
       <<parserVars, plannerVars, serviceVars, aiVars, deleteVars, userVars, authVars,
            casesVars, signInVars>>
  \/ CloseSettings /\ UNCHANGED
       <<parserVars, plannerVars, serviceVars, aiVars, deleteVars, userVars, authVars,
            casesVars, signInVars>>
  \/ TestConnection /\ UNCHANGED
       <<parserVars, plannerVars, serviceVars, aiVars, deleteVars, userVars, authVars,
            casesVars, signInVars>>
  \/ \E answer \in ModelsAnswers :
        ModelsAnswer(answer) /\ UNCHANGED
          <<parserVars, plannerVars, serviceVars, aiVars, deleteVars, userVars, authVars,
            casesVars, signInVars>>
  \/ \E modelId \in Models :
        SelectModel(modelId) /\ UNCHANGED
          <<parserVars, plannerVars, serviceVars, aiVars, deleteVars, userVars, authVars,
            casesVars, signInVars>>
  \/ Reload /\ UNCHANGED
       <<parserVars, plannerVars, serviceVars, aiVars, deleteVars, userVars, authVars,
            casesVars, signInVars>>
  \/ StartRequest /\ UNCHANGED
       <<parserVars, plannerVars, serviceVars, aiVars, deleteVars, userVars, authVars,
            casesVars, signInVars>>
  \/ \E again \in BOOLEAN :
        FinishRequest(again) /\ UNCHANGED
          <<parserVars, plannerVars, serviceVars, aiVars, deleteVars, userVars, authVars,
            casesVars, signInVars>>
InitSettings ==
  /\ SessionIdle
  /\ ParserInit({<<>>}) /\ StoreInit(ApiKeys) /\ PlannerInit({BlankCase})
  /\ ServiceInit({NoCall}) /\ PanelsInit /\ RestInit
SpecSettings == InitSettings /\ [][NextSettings]_vars

\* One call of getCases, getCase or createCase, for everything it can meet.
NextCases ==
  \/ \E winner \in {"call", "timer"} :
        GetCasesHealth(winner) /\ UNCHANGED <<appVars, settingsVars, authVars, signInVars>>
  \/ \E winner \in {"call", "timer"} :
        GetCasesQuery(winner) /\ UNCHANGED <<appVars, settingsVars, authVars, signInVars>>
  \/ GetCaseRow /\ UNCHANGED <<appVars, settingsVars, authVars, signInVars>>
  \/ CreateCaseInsert /\ UNCHANGED <<appVars, settingsVars, authVars, signInVars>>
  \/ ProfilesFetched /\ UNCHANGED <<appVars, settingsVars, authVars, signInVars>>
InitCases ==
  /\ SettingsInit /\ AuthInit /\ SignInInit /\ CasesInit(CasesCalls)
  /\ ParserInit({<<>>}) /\ StoreInit({NoKey}) /\ PlannerInit({BlankCase})
  /\ ServiceInit({NoCall}) /\ PanelsInit /\ RestInit
SpecCases == InitCases /\ [][NextCases]_vars

\* The calls of initialize, the answers they wait for and their timers.
NextAuth ==
  \/ Initialize /\ UNCHANGED <<appVars, settingsVars, casesVars, signInVars>>
  \/ \E i \in 1..MaxInits, connected \in BOOLEAN :
        ConnectionTested(i, connected) /\ UNCHANGED <<appVars, settingsVars, casesVars, signInVars>>
  \/ \E i \in 1..MaxInits :
        TimeoutFires(i) /\ UNCHANGED <<appVars, settingsVars, casesVars, signInVars>>
  \/ \E i \in 1..MaxInits, answer \in {"error", "none", "user"} :
        SessionAnswers(i, answer) /\ UNCHANGED <<appVars, settingsVars, casesVars, signInVars>>
  \/ \E i \in 1..MaxInits, profile \in {{}} \cup {{p} : p \in Profiles} :
        ProfileAnswers(i, profile) /\ UNCHANGED <<appVars, settingsVars, casesVars, signInVars>>
InitAuth ==
  /\ SessionIdle
  /\ ParserInit({<<>>}) /\ StoreInit({NoKey}) /\ PlannerInit({BlankCase})
  /\ ServiceInit({NoCall}) /\ PanelsInit /\ RestInit
SpecAuth == InitAuth /\ [][NextAuth]_vars

\* The store of authStore.ts in full: one initialize call, one login, logout
\* and the events of the listener.
NextSignIn ==
  \/ Len(initCalls) = 0 /\ Initialize
       /\ UNCHANGED <<appVars, settingsVars, casesVars, signInVars>>
  \/ \E i \in 1..MaxInits, connected \in BOOLEAN :
        ConnectionTested(i, connected)
          /\ UNCHANGED <<appVars, settingsVars, casesVars, signInVars>>
  \/ \E i \in 1..MaxInits :
        TimeoutFires(i) /\ UNCHANGED <<appVars, settingsVars, casesVars, signInVars>>
  \/ \E i \in 1..MaxInits, answer \in {"error", "none", "user"} :
        SessionAnswers(i, answer)
          /\ UNCHANGED <<appVars, settingsVars, casesVars, signInVars>>
  \/ \E i \in 1..MaxInits, profile \in {{}} \cup {{p} : p \in Profiles} :
        ProfileAnswers(i, profile)
          /\ UNCHANGED <<appVars, settingsVars, casesVars, signInVars>>
  \/ LoginStart /\ UNCHANGED <<appVars, settingsVars, casesVars>>
  \/ \E outcome \in LoginOutcomes :
        LoginSettles(outcome) /\ UNCHANGED <<appVars, settingsVars, casesVars>>
  \/ Logout /\ UNCHANGED <<appVars, settingsVars, casesVars>>
  \/ \E event \in AuthEvents, eventSession \in Sessions :
        OnAuthStateChange(event, eventSession) /\ UNCHANGED <<appVars, settingsVars, casesVars>>
  \/ \E profile \in {{}} \cup {{p} : p \in Profiles} :
        ListenerProfile(profile) /\ UNCHANGED <<appVars, settingsVars, casesVars>>
SpecSignIn == InitAuth /\ [][NextSignIn]_vars

\* The store with the later listener: login, logout, the events and the
\* background profile fetch.
NextBackground ==
  \/ LoginStart /\ UNCHANGED <<appVars, settingsVars, casesVars>>
  \/ \E outcome \in LoginOutcomes :
        LoginSettles(outcome) /\ UNCHANGED <<appVars, settingsVars, casesVars>>
  \/ Logout /\ UNCHANGED <<appVars, settingsVars, casesVars>>
  \/ \E event \in AuthEvents, eventSession \in Sessions :
        OnAuthStateChangeBackground(event, eventSession)
          /\ UNCHANGED <<appVars, settingsVars, casesVars>>
  \/ \E profile \in {{}} \cup {{p} : p \in Profiles} :
        BackgroundProfile(profile) /\ UNCHANGED <<appVars, settingsVars, casesVars>>
SpecBackground == InitAuth /\ [][NextBackground]_vars

\* A timer that is set fires unless it is cleared; no answer of the connection
\* test, of getSession or of getCurrentUser is certain to come.
SpecAuthFair ==
  /\ InitAuth /\ [][NextAuth]_vars
  /\ \A i \in 1..MaxInits : WF_vars(TimeoutFires(i) /\ UNCHANGED <<appVars, settingsVars, casesVars, signInVars>>)

(***************************************************************************)
(* C1: every response that contains the text '20 hours' is parsed to a     *)
(* week-4 total of '100' and a week-1 total of '50'.                       *)
(***************************************************************************)
ContainsTwentyHours(response) ==
  \E l \in 1..Len(response) : \E i \in 1..(Len(response[l]) - 1) :
     response[l][i] = "20" /\ response[l][i + 1] = "hours"

C1_TwentyHoursGivesTotals ==
  (parserPc = "parsed" /\ ContainsTwentyHours(aiResponse))
     => /\ recommendations.week4Hours.total = "100"
        /\ recommendations.week1Hours.total = "50"

(***************************************************************************)
(* C2: generatePDF opens the print window only if each of the twelve       *)
(* required fields is non-empty after trimming; a call of generatePDF      *)
(* leaves the form as it was.                                              *)
(***************************************************************************)
NonBlank(text) == \E l \in 1..Len(text) : \E i \in 1..Len(text[l]) : text[l][i] # " "

TwelveFieldsFilled ==
  /\ NonBlank(formData.workerName) /\ NonBlank(formData.claimNumber)
  /\ NonBlank(formData.jobTitle) /\ NonBlank(formData.employerName)
  /\ NonBlank(formData.dutiesTasks) /\ NonBlank(formData.workplaceSupports)
  /\ NonBlank(formData.dutiesToAvoid) /\ NonBlank(formData.medicalRestrictions)
  /\ NonBlank(formData.startDate) /\ NonBlank(formData.reviewDate)
  /\ NonBlank(formData.preparedByName) /\ NonBlank(formData.preparedByPhone)

C2_PdfOnlyWhenComplete ==
  [][/\ pdfResult' = "opened" => TwelveFieldsFilled'
     /\ pdfResult' # "none" => formData' = formData]_vars

C2_Witness == pdfResult = "opened" /\ edits > 0

(***************************************************************************)
(* C3: while isConnected is false no AI panel issues a completion request: *)
(* every step that sends a request is taken with isConnected = TRUE.       *)
(***************************************************************************)
C3_NoRequestWhileDisconnected ==
  [][requestsIssued' # requestsIssued => isConnected]_vars

(***************************************************************************)
(* C4: analyzeCase, chatWithRTWExpert and analyzeDocument never throw;     *)
(* without a valid key, and when the request fails for any reason, each    *)
(* resolves to its fixed fallback value.                                   *)
(***************************************************************************)
notAvailableValue(method) ==
  CASE method = "analyzeCase" -> CaseNotAvailable
    [] method = "analyzeDocument" -> DocumentNotAvailable
    [] OTHER -> NotConfiguredApology

errorValue(method) ==
  CASE method = "analyzeCase" -> CaseError
    [] method = "analyzeDocument" -> DocumentError
    [] OTHER -> ErrorApology

requestFails(call) ==
  \/ call.outcome \in FailureKinds
  \/ call.method = "analyzeCase" /\ ~call.stringifies

C4_ServiceNeverThrows ==
  serviceResult # Pending =>
    /\ ~serviceResult.threw
    /\ ~hasValidKey(apiKey) =>
         serviceResult.value = notAvailableValue(serviceCall.method)
    /\ (hasValidKey(apiKey) /\ requestFails(serviceCall)) =>
         serviceResult.value = errorValue(serviceCall.method)

C4_Witness ==
  /\ serviceResult # Pending
  /\ hasValidKey(apiKey)
  /\ serviceCall.outcome = "rate_limit"
  /\ serviceCall.method = "analyzeDocument"

(***************************************************************************)
(* C5: each user action issues exactly one completion request: a chat      *)
(* message that has been answered has caused one request, and a Generate   *)
(* Insights or AI Assist click on a connected store sends one request.     *)
(***************************************************************************)
C5_OneRequestPerAction ==
  [][/\ (chatPc # "idle" /\ chatPc' = "idle") => chatRequests' = 1
     /\ (clicks' = clicks + 1 /\ isConnected) => requestsIssued' = requestsIssued + 1]_vars

(***************************************************************************)
(* C9: an authentication failure, a rate-limit failure and any other API   *)
(* failure of a completion request are each shown with a message of their  *)
(* own.                                                                    *)
(***************************************************************************)
failureClass(kind) ==
  IF kind \in {"authentication", "rate_limit"} THEN kind ELSE "other"

C9_FailureKindsHaveOwnMessage ==
  \A p \in shown, q \in shown :
     failureClass(p[1]) # failureClass(q[1]) => p[2] # q[2]

(***************************************************************************)
(* C6: after deleteCase has succeeded, no document row of the case is left *)
(* in the database and no uploaded file of the case is left in storage.    *)
(***************************************************************************)
C6_NoOrphanedDocuments ==
  deleteResult = "ok" =>
    /\ \A doc \in dbDocuments : doc.case_id # deleteTarget
    /\ \A path \in storageFiles : path[1] # deleteTarget

(***************************************************************************)
(* C7: a delete request removes a case only if the requester is            *)
(* authenticated and is the case's manager or an admin; after the request  *)
(* of any other user the cases and their child records are as before.      *)
(***************************************************************************)
managerOrAdmin(requester, caseId) ==
  requester \in {caseManagerOf[caseId], "admin"}

C7_DeleteOnlyByManagerOrAdmin ==
  [][/\ \A caseId \in DOMAIN caseManagerOf :
          (caseId \in dbCases /\ caseId \notin dbCases') => managerOrAdmin(session, caseId)
     /\ (deletesInFlight' < deletesInFlight /\ ~managerOrAdmin(session, deleteTarget))
          => (dbCases' = dbCases /\ dbDocuments' = dbDocuments)]_vars

C7_Witness ==
  /\ deleteResult = "ok" /\ session = "other" /\ deleteTarget = "c1"
  /\ "c1" \in dbCases
  /\ \E doc \in dbDocuments : doc.case_id = "c1"

C10_GetCurrentUserFallsBack ==
  userPc = "done" =>
    /\ ~userResult.threw
    /\ userCall.getUserMs > GetUserTimeoutMs =>
         IF userCall.stored = "session"
         THEN /\ user = "cached-id"
              /\ (userCall.profile = "row" /\ userCall.profileMs < ProfileTimeoutMs)
                   => userResult.value = "profile of cached-id"
         ELSE userResult.value = Null

C10_Witness ==
  /\ userPc = "done" /\ userCall.getUserMs > GetUserTimeoutMs
  /\ userCall.stored = "session"
  /\ userResult.value = "profile of cached-id"


(***************************************************************************)
(* C14: parseRTWRecommendations returns for every response text, empty or  *)
(* unrecognised text included; each of the four text fields is the content *)
(* accumulated for its section or, when there is none, its fixed default;  *)
(* every week-hour field is the empty string when no hours value was       *)
(* extracted.                                                              *)
(***************************************************************************)
accumulated == parseLines(ParseStart, filterLines(aiResponse))

hoursExtracted == hoursMatches(joinLines(accumulated.hoursRecommendation)) # {}

WeekFields == {"week1Hours", "week2Hours", "week3Hours", "week4Hours"}

C14_ParserAlwaysReturns ==
  parserPc = "parsed" =>
       /\ DOMAIN recommendations = DOMAIN Defaults \cup WeekFields
       /\ \A f \in DOMAIN Defaults :
            recommendations[f] =
              IF accumulated[f] # <<>> THEN accumulated[f] ELSE Defaults[f]
       /\ ~hoursExtracted =>
            \A w \in WeekFields : \A day \in DOMAIN recommendations[w] :
               recommendations[w][day] = ""

\* A response with content for one section only and no hours value.
C14_Witness ==
  /\ parserPc = "parsed"
  /\ ~hoursExtracted
  /\ recommendations.dutiesTasks = << <<"light", "office", "work">> >>
  /\ recommendations.medicalRestrictions = Defaults.medicalRestrictions
  /\ recommendations.week1Hours.total = ""

(***************************************************************************)
(* C19: when a base hours value h is extracted, the weekday entries of     *)
(* weeks 1 to 4 are 50%, 75%, 90% and 100% of h, Saturday and Sunday are   *)
(* '0', each total is five times the weekday value, and the totals never   *)
(* decrease from week 1 to week 4.                                         *)
(***************************************************************************)
extractedHours ==
  LET tokens == joinLines(accumulated.hoursRecommendation)
  IN  parseFloat(tokens[Min(hoursMatches(tokens))])

\* week holds weekday on Monday to Friday, '0' at the weekend, 5 * weekday as total.
weekHolds(week, weekday) ==
  /\ \A day \in {"mon", "tue", "wed", "thu", "fri"} : week[day] = numberToString(weekday)
  /\ week.sat = "0" /\ week.sun = "0"
  /\ week.total = numberToString(5 * weekday)

\* percent hundredths of the extracted hours, when that is a whole number of thousandths.
share(percent) == (percent * extractedHours) \div 100
isExactShare(percent) == 100 * share(percent) = percent * extractedHours

C19_HoursProgression ==
  (parserPc = "parsed" /\ hoursExtracted) =>
     /\ \A percent \in {50, 75, 90, 100} : isExactShare(percent)
     /\ weekHolds(recommendations.week1Hours, share(50))
     /\ weekHolds(recommendations.week2Hours, share(75))
     /\ weekHolds(recommendations.week3Hours, share(90))
     /\ weekHolds(recommendations.week4Hours, share(100))
     /\ share(100) = extractedHours
     /\ 5 * share(50) <= 5 * share(75)
     /\ 5 * share(75) <= 5 * share(90)
     /\ 5 * share(90) <= 5 * share(100)


(***************************************************************************)
(* C12: the selected model survives a reload and nothing else does: after  *)
(* setSelectedModel(m) and a reload the store starts with selectedModel =  *)
(* m, connectionStatus 'disconnected', isConnected false and errorMessage  *)
(* null, whatever they were before the reload.                             *)
(***************************************************************************)
C12_OnlyModelSurvivesReload ==
  [][sessions' # sessions =>
       /\ selectedModel' = selectedModel
       /\ storage # Null => selectedModel' = storage
       /\ connectionStatus' = "disconnected"
       /\ isConnected' = FALSE
       /\ errorMessage' = Null]_vars

\* A second session that starts with the model chosen in the first one.
C12_Witness ==
  /\ sessions = 2
  /\ selectedModel = "gpt-4o" /\ storage = "gpt-4o"
  /\ connectionStatus = "disconnected" /\ isConnected = FALSE /\ errorMessage = Null
  /\ getSelectedModel = Null /\ sentModels = <<>>

(***************************************************************************)
(* C13: every completion request is sent with the model that is selected   *)
(* in the store at that moment (gpt-4o-mini when none was chosen), in      *)
(* every session, a session that restored a persisted selection included,  *)
(* whichever pages were visited before the request.                        *)
(***************************************************************************)
C13_RequestsUseSelectedModel ==
  [][Len(sentModels') > Len(sentModels) =>
       sentModels'[Len(sentModels')] = selectedModel]_vars

\* A request of a second session, sent with the restored model after the
\* Settings page was left.
C13_Witness ==
  /\ sessions = 2
  /\ ~settingsOpen
  /\ selectedModel = "gpt-4o"
  /\ sentModels = <<"gpt-4o">>

(***************************************************************************)
(* C16: checkConnection with a missing, blank or placeholder API key ends  *)
(* with connectionStatus 'error', isConnected false and the 'OpenAI API    *)
(* key not configured' message, and sends no request.                      *)
(***************************************************************************)
missingBlankOrPlaceholder(key) ==
  \/ ~key.defined
  \/ \A i \in 1..Len(key.text) : key.text[i] = " "
  \/ key.text \in Placeholders

C16_NoKeyNoRequest ==
  [][((OpenSettings \/ TestConnection) /\ missingBlankOrPlaceholder(apiKey)) =>
       /\ connectionStatus' = "error"
       /\ isConnected' = FALSE
       /\ errorMessage' =
            "OpenAI API key not configured. Please add VITE_OPENAI_API_KEY to your .env file."
       /\ checksInFlight = 0 /\ checksInFlight' = 0
       /\ modelsResponse' = Null]_vars

\* The Settings page opened with a placeholder key.
C16_Witness ==
  /\ apiKey.text \in Placeholders
  /\ settingsOpen
  /\ connectionStatus = "error" /\ isConnected = FALSE
  /\ errorMessage =
       "OpenAI API key not configured. Please add VITE_OPENAI_API_KEY to your .env file."
  /\ checksInFlight = 0

(***************************************************************************)
(* C17: checkConnection maps the answer of the models endpoint to one      *)
(* final state: a 2xx answer gives 'connected', isConnected true and       *)
(* errorMessage null; 401 the 'Invalid API key' message, 429 the 'Rate     *)
(* limit exceeded' message, any other status 'API error: <status>', a      *)
(* thrown network error its own message, each with 'error' and isConnected *)
(* false.                                                                  *)
(***************************************************************************)
is2xx(answer) == answer \in {"ok", "ok_bad_body"}

errorState(message) ==
  /\ connectionStatus = "error" /\ isConnected = FALSE /\ errorMessage = message

connectedState ==
  /\ connectionStatus = "connected" /\ isConnected = TRUE /\ errorMessage = Null

otherAnswers ==
  /\ modelsResponse = "401" =>
       errorState("Invalid API key. Please check your OpenAI API key.")
  /\ modelsResponse = "429" => errorState("Rate limit exceeded. Please try again later.")
  /\ modelsResponse = "500" => errorState("API error: 500 Internal Server Error")
  /\ modelsResponse = "network" => errorState("Failed to fetch")

C17_AnswerDeterminesState ==
  /\ (modelsResponse # Null /\ is2xx(modelsResponse)) => connectedState
  /\ otherAnswers

\* As C17, but a 2xx answer gives 'connected' only when its body is read as JSON;
\* a 2xx answer whose body is not gives 'error', isConnected false and the
\* message of the error that response.json() threw.
C17_ReadAnswerDeterminesState ==
  /\ modelsResponse = "ok" => connectedState
  /\ modelsResponse = "ok_bad_body" => errorState("Unexpected end of JSON input")
  /\ otherAnswers

\* A 2xx answer without a JSON body has ended the check.
C17_Witness ==
  /\ modelsResponse = "ok_bad_body"
  /\ connectionStatus = "error" /\ isConnected = FALSE
  /\ errorMessage = "Unexpected end of JSON input"

(***************************************************************************)
(* C11: the result of a superseded request is still applied: when the      *)
(* timeout of initialize fires before the session or profile request       *)
(* answers, the store is set to unauthenticated with the timeout error,    *)
(* and when the request later answers with a session and a profile the     *)
(* store is set to authenticated with that user and error null.            *)
(***************************************************************************)
userOf(profile) ==
  [id |-> profile.id, name |-> profile.name, email |-> profile.email,
   role |-> profile.role,
   avatar |-> IF profile.avatar_url = "bo.png" THEN "bo.png" ELSE "undefined"]

C11_LateResultIsApplied ==
  [][\A i \in DOMAIN initCalls :
       /\ TimeoutFires(i) =>
            /\ authUser' = {} /\ isAuthenticated' = FALSE /\ isLoading' = FALSE
            /\ authError' = "Authentication timeout. Please try refreshing the page."
       /\ \A p \in Profiles :
            (initCalls[i].timer = "fired" /\ ProfileAnswers(i, {p})) =>
               /\ authUser' = {userOf(p)} /\ isAuthenticated' = TRUE
               /\ isLoading' = FALSE /\ authError' = Null]_vars

\* A call whose timer fired has ended with the user signed in.
C11_Witness ==
  /\ \E i \in DOMAIN initCalls : initCalls[i].timer = "fired" /\ initCalls[i].pc = "done"
  /\ \A i \in DOMAIN initCalls : initCalls[i].pc = "done"
  /\ Len(initCalls) = 1
  /\ isAuthenticated /\ authUser # {} /\ authError = Null /\ ~isLoading

(***************************************************************************)
(* C20: every call of initialize that starts while isLoading is false      *)
(* eventually sets isLoading back to false, also when the connection test, *)
(* the session request or the profile request never answers: the timeout   *)
(* of the call forces the unauthenticated state.                           *)
(***************************************************************************)
C20_InitializeEndsLoading == isLoading ~> ~isLoading

(***************************************************************************)
(* C15: every Case made from a database row has exactly one case manager,  *)
(* whose id is the row's case_manager_id, both when the manager's profile  *)
(* was fetched and when the profile map has no entry for it; a created     *)
(* case stores the id of the one caseManager it was given.                 *)
(***************************************************************************)
\* The rows the cases of a result were made from, in their order.
sourceRows == IF casesCall.method = "getCases" THEN casesCall.rows ELSE casesRow

managerFetched(row) == \E p \in casesCall.fetched : p.id = row.case_manager_id

C15_OneCaseManagerPerCase ==
  /\ (casesPc = "done" /\ ~casesResult.threw) =>
       \A k \in 1..Len(casesResult.value) :
          /\ "caseManager" \in DOMAIN casesResult.value[k]
          /\ casesResult.value[k].id = sourceRows[k].id
          /\ casesResult.value[k].caseManager.id = sourceRows[k].case_manager_id
  /\ (casesCall.method = "createCase" /\ casesRow # <<>>) =>
       casesRow[1].case_manager_id = casesCall.caseData.caseManager.id

\* A case read for a manager whose profile the map does not hold.
C15_Witness ==
  /\ casesCall.method = "getCase" /\ casesPc = "done"
  /\ Len(casesResult.value) = 1
  /\ ~managerFetched(casesRow[1])
  /\ casesResult.value[1].caseManager.id = "u1"
  /\ casesResult.value[1].caseManager.name = "Case Manager"

(***************************************************************************)
(* C18: getCases never throws: when the connectivity check fails, when the *)
(* cases query exceeds its 15-second timeout, or when the query returns an *)
(* error, it resolves to an empty list; otherwise it resolves to the       *)
(* fetched cases.                                                          *)
(***************************************************************************)
checkFails == casesCall.health # "ok" \/ casesCall.healthMs > 5000

C18_GetCasesNeverThrows ==
  (casesCall.method = "getCases" /\ casesPc = "done") =>
     /\ ~casesResult.threw
     /\ (checkFails \/ casesCall.queryMs > 15000 \/ casesCall.query = "error")
          => casesResult.value = <<>>
     /\ (casesCall.health = "ok" /\ casesCall.healthMs < 5000
           /\ casesCall.queryMs < 15000 /\ casesCall.query = "rows")
          => /\ Len(casesResult.value) = Len(casesCall.rows)
             /\ \A k \in 1..Len(casesCall.rows) :
                  /\ casesResult.value[k].id = casesCall.rows[k].id
                  /\ casesResult.value[k].claimNumber = casesCall.rows[k].claim_number

\* The query ran into its timeout and the call resolved to [].
C18_Witness ==
  /\ casesCall.method = "getCases" /\ casesPc = "done"
  /\ casesCall.health = "ok" /\ casesCall.healthMs < 5000
  /\ casesCall.queryMs > 15000 /\ casesCall.query = "rows" /\ casesCall.rows # <<>>
  /\ ~casesResult.threw /\ casesResult.value = <<>>

(***************************************************************************)
(* C21: in the response parser a line is accumulated as content of the     *)
(* current section only if it matches no section-header keyword, starts    *)
(* with neither '-' nor the bullet, and a header was seen before it;       *)
(* header lines only switch the current section, the keywords being tested *)
(* in the order duties+tasks, workplace/supports, avoid/restricted,        *)
(* medical/restrictions, hours/progression; lines before the first header  *)
(* are discarded.                                                          *)
(***************************************************************************)
HeaderOrder == <<"duties", "supports", "avoid", "medical", "hours">>

matchesHeader(line, section) ==
  CASE section = "duties"   -> includes(line, "duties") /\ includes(line, "tasks")
    [] section = "supports" -> includes(line, "workplace") \/ includes(line, "supports")
    [] section = "avoid"    -> includes(line, "avoid") \/ includes(line, "restricted")
    [] section = "medical"  -> includes(line, "medical") \/ includes(line, "restrictions")
    [] section = "hours"    -> includes(line, "hours") \/ includes(line, "progression")

isHeader(line) == \E k \in 1..Len(HeaderOrder) : matchesHeader(line, HeaderOrder[k])

\* The first section, in the order of the tests, whose keywords the line holds.
headerOf(line) ==
  HeaderOrder[CHOOSE k \in 1..Len(HeaderOrder) :
                 /\ matchesHeader(line, HeaderOrder[k])
                 /\ \A j \in 1..(k - 1) : ~matchesHeader(line, HeaderOrder[j])]

responseLines == [i \in 1..Len(filterLines(aiResponse)) |-> trim(filterLines(aiResponse)[i])]

\* Line i is content of section: no header, no list mark, and the last header
\* before it is the one of section.
isContentOf(i, section) ==
  /\ ~isHeader(responseLines[i])
  /\ ~startsWith(responseLines[i], "-") /\ ~startsWith(responseLines[i], Bullet)
  /\ \E h \in 1..(i - 1) :
        /\ isHeader(responseLines[h]) /\ headerOf(responseLines[h]) = section
        /\ \A j \in (h + 1)..(i - 1) : ~isHeader(responseLines[j])

\* The content lines of section, in the order of the response.
contentOf(section) ==
  LET upTo[n \in 0..Len(responseLines)] ==
        IF n = 0 THEN <<>>
        ELSE IF isContentOf(n, section) THEN Append(upTo[n - 1], responseLines[n])
        ELSE upTo[n - 1]
  IN  upTo[Len(responseLines)]

SectionField ==
  [duties |-> "dutiesTasks", supports |-> "workplaceSupports", avoid |-> "dutiesToAvoid",
   medical |-> "medicalRestrictions"]

C21_OnlyContentAccumulated ==
  parserPc = "parsed" =>
    /\ \A section \in DOMAIN SectionField :
          recommendations[SectionField[section]] =
            IF contentOf(section) # <<>> THEN contentOf(section)
            ELSE Defaults[SectionField[section]]
    /\ recommendations.week1Hours # EmptyWeek
          <=> hoursMatches(joinLines(contentOf("hours"))) # {}

\* A content line before the first header, a header that holds keywords of
\* three tests, a list item and a content line after it.
C21_Witness ==
  /\ parserPc = "parsed"
  /\ aiResponse = << <<"light", "office", "work">>, <<"Workplace", "hours", "to", "avoid">>,
                     <<"light", "office", "work">> >>
  /\ recommendations.workplaceSupports = << <<"light", "office", "work">> >>
  /\ recommendations.dutiesTasks = Defaults.dutiesTasks

(***************************************************************************)
(* C24: in every reachable state of the AI settings store, isConnected is  *)
(* true exactly when connectionStatus is 'connected', also while a check   *)
(* is in progress.                                                         *)
(***************************************************************************)
C24_ConnectedIffStatus == isConnected <=> connectionStatus = "connected"

(***************************************************************************)
(* C26: creating a case loses no field: the case that createCase returns   *)
(* (the case converted to a row by transformCaseForDB, inserted, and       *)
(* converted back by transformCaseFromDB) has the value of the case given  *)
(* in every stored field, workcoverType included.                          *)
(***************************************************************************)
StoredCaseFields ==
  {"worker", "employer", "claimNumber", "injuryDate", "injuryDescription",
   "firstCertificateDate", "plannedRtwDate", "reviewDates", "rtwPlan", "consultant",
   "status", "claimType", "jurisdiction", "agent", "wagesSalary", "piaweCalculation",
   "outcome", "workcoverType"}

C26_CreateCaseLosesNoField ==
  (casesCall.method = "createCase" /\ casesPc = "done" /\ ~casesResult.threw) =>
     /\ \A f \in StoredCaseFields : casesResult.value[1][f] = casesCall.caseData[f]
     /\ casesResult.value[1].caseManager.id = casesCall.caseData.caseManager.id

(***************************************************************************)
(* C25: applying chat-generated recommendations to the planner             *)
(* (populateFromAI with the output of parseRTWRecommendations) never       *)
(* replaces a non-empty form value by an empty one: when the parser        *)
(* extracted no hours the week hours entered in the form are kept, and     *)
(* every field that is not part of the recommendations is unchanged.       *)
(***************************************************************************)
RecommendationFields == DOMAIN Defaults \cup WeekFields

C25_PopulateKeepsEnteredValues ==
  [][\A text \in CompletionTexts :
       PopulateFromAI(text) =>
         /\ \A f \in DOMAIN Defaults : formData[f] # <<>> => formData'[f] # <<>>
         /\ \A w \in WeekFields : \A day \in DOMAIN formData[w] :
               formData[w][day] # "" => formData'[w][day] # ""
         /\ parseRTWRecommendations(text).week1Hours = EmptyWeek =>
               \A w \in WeekFields : formData'[w] = formData[w]
         /\ \A f \in DOMAIN formData \ RecommendationFields :
               formData'[f] = formData[f]]_vars

(***************************************************************************)
(* C30: a populate_rtw_planner action is attached to an assistant message  *)
(* only when the recommendation request succeeded: when the AI service is  *)
(* unconfigured or the request fails, the chatbot answers with the 'error  *)
(* generating RTW plan recommendations' text and offers no populate action.*)
(***************************************************************************)
C30_PopulateOnlyOnSuccess ==
  [][\A outcome \in CompletionOutcomes, text \in CompletionTexts :
       (RtwResolve(outcome, text) /\ (outcome \in FailureKinds \/ ~hasValidKey(apiKey))) =>
          /\ \A k \in DOMAIN chatActions' : chatActions'[k].action # "populate_rtw_planner"
          /\ chatResponse' = << <<"I", "encountered", "an", "error">> >>]_vars

(***************************************************************************)
(* C28: clicking a populate_rtw_planner action calls the planner's         *)
(* populateFromAI only when a planner is registered, its case id equals    *)
(* the action's target and the action carries data; in every other         *)
(* situation no planner form is modified and a fallback message is         *)
(* appended to the chat.                                                   *)
(***************************************************************************)
ClickPositions == 1..(2 * MaxSubmits + MaxActionClicks + 1)

\* The click appended a message with this text.
appended(text) ==
  /\ Len(messages') = Len(messages) + 1
  /\ SubSeq(messages', 1, Len(messages)) = messages
  /\ messages'[Len(messages')].type = "assistant"
  /\ messages'[Len(messages')].content = <<<<>>, text>>

C28_PopulateOrFallback ==
  [][\A m \in ClickPositions, k \in 1..2, rtwPlannerRef \in BOOLEAN,
        currentCaseId \in CaseIds, listed \in BOOLEAN :
       (/\ HandleActionClick(m, k, rtwPlannerRef, currentCaseId, listed)
        /\ messages[m].actions[k].action = "populate_rtw_planner") =>
          IF /\ rtwPlannerRef /\ currentCaseId = messages[m].actions[k].target
             /\ "data" \in DOMAIN messages[m].actions[k]
          THEN TRUE
          ELSE formData' = formData /\ appended(FallbackText)]_vars

(***************************************************************************)
(* C28, as the code has it: the same, except that a click on an action     *)
(* whose target case is no longer in the case list modifies no form and    *)
(* appends nothing; the fallback message is appended when the case is      *)
(* listed and one of the three conditions fails.                           *)
(***************************************************************************)
C28_PopulateOrFallbackWhenListed ==
  [][\A m \in ClickPositions, k \in 1..2, rtwPlannerRef \in BOOLEAN,
        currentCaseId \in CaseIds, listed \in BOOLEAN :
       (/\ HandleActionClick(m, k, rtwPlannerRef, currentCaseId, listed)
        /\ messages[m].actions[k].action = "populate_rtw_planner") =>
          IF ~listed THEN formData' = formData /\ messages' = messages
          ELSE IF /\ rtwPlannerRef /\ currentCaseId = messages[m].actions[k].target
                  /\ "data" \in DOMAIN messages[m].actions[k]
          THEN /\ formData' = populateFromAI(formData, messages[m].actions[k].data)
               /\ appended(PopulatedText)
          ELSE formData' = formData /\ appended(FallbackText)]_vars

\* A populate click has filled the form, and the panel was closed by it.
C28_Witness ==
  /\ actionClicks = 1 /\ ~isChatbotOpen
  /\ Len(messages) > 1 /\ messages[Len(messages)].type = "assistant"
  /\ messages[Len(messages)].content = <<<<>>, PopulatedText>>
  /\ formData.dutiesTasks = << <<"light", "office", "work">> >>

(***************************************************************************)
(* C29: provided every completion request eventually resolves or rejects,  *)
(* each submitted chat message is followed by exactly one assistant        *)
(* message (the answer or the error apology) appended after it, and        *)
(* isLoading returns to false; while isLoading is true a further submit is *)
(* ignored, so at most one message is being processed at a time.           *)
(***************************************************************************)
\* The messages the user submitted, and the answers processUserMessage gave.
userMessages == {i \in DOMAIN messages : messages[i].type = "user"}
answerMessages ==
  {i \in DOMAIN messages :
     /\ i > 1 /\ messages[i].type = "assistant"
     /\ messages[i].content[2] \notin {PopulatedText, FallbackText}}

\* Every submitted message but the last has its answer; the last has it
\* exactly when isLoading is false.
answeredInOrder ==
  /\ Cardinality(userMessages) = submits
  /\ Cardinality(answerMessages) = IF chatLoading THEN submits - 1 ELSE submits
  /\ \A i \in userMessages :
        Cardinality({j \in answerMessages : j < i})
          = Cardinality({j \in userMessages : j < i})

C29_EachMessageAnswered ==
  /\ []answeredInOrder
  /\ chatLoading ~> (~chatLoading /\ answeredInOrder)

\* Two messages were submitted and both have their answer.
C29_Witness ==
  /\ submits = 2 /\ ~chatLoading
  /\ Cardinality(answerMessages) = 2
  /\ messages[2].type = "user" /\ messages[3].type = "assistant"

(***************************************************************************)
(* C27: uploadDocument leaves storage and database consistent on failure:  *)
(* whenever it throws (upload error or document-record insert error), no   *)
(* file that it uploaded remains in storage without a document record.     *)
(***************************************************************************)
C27_NoOrphanAfterFailedUpload ==
  [][\A caseId \in DOMAIN caseManagerOf, outcome \in {"upload_error", "insert_error"} :
       UploadDocument(caseId, outcome) =>
         \A f \in storageFiles' \ storageFiles :
            \E doc \in dbDocuments' : doc.file_path = f]_vars

(***************************************************************************)
(* C22: in every state of the auth store isAuthenticated is true exactly   *)
(* when user is non-null, also while and after the background profile      *)
(* fetch that a SIGNED_IN event starts.                                    *)
(***************************************************************************)
C22_AuthenticatedIffUser == isAuthenticated <=> authUser # {}

(***************************************************************************)
(* C23: once login has succeeded, and until a logout or a signed-out       *)
(* event, the store is authenticated with a user: the timeout and the late *)
(* answers of an initialize call started before the login do not reset it. *)
(***************************************************************************)
C23_LoginStaysAuthenticated ==
  (loginPc = "succeeded" /\ logouts = 0 /\ signedOutEvents = 0)
    => (isAuthenticated /\ authUser # {})
=============================================================================
